---------------------------- MODULE Spec2Model ----------------------------
(***************************************************************************)
(* A model of four parts of starpls:                                         *)
(*                                                                         *)
(*  - the code-flow graph builder, crates/starpls_hir/src/def/codeflow.rs  *)
(*    (specification SpecFlow);                                            *)
(*  - the type-inference context, its mutex, its cancellation flag and     *)
(*    infer_expr, crates/starpls_hir/src/typeck.rs (specification SpecTc); *)
(*  - the inference functions of typeck.rs that depend on their arguments  *)
(*    only: assign_tys, the binding of the arguments of a built-in call to *)
(*    slots, tuple destructuring and infer_binary_expr (specification      *)
(*    SpecInfer);                                                          *)
(*  - the command-line check, crates/starpls/src/check.rs (specification   *)
(*    SpecCheck).                                                          *)
(*                                                                         *)
(* The builder is a recursive walk over the statements of a module.  The   *)
(* model runs the walk one step at a time: `stack` holds the activation    *)
(* records of lower_stmts / lower_stmt that are open, with the locals the  *)
(* code keeps in them (pre_if_node, post_if_node, pre_for_node, ...).  The *)
(* module that is lowered is an input: the walk never looks ahead, so each *)
(* statement is drawn (with \E) at the moment lower_stmt is called on it,  *)
(* and the length of a statement list is drawn when the list is entered.   *)
(***************************************************************************)
EXTENDS Integers, Sequences, FiniteSets, TLC

(***************************************************************************)
(* Bounds of the model.                                                    *)
(***************************************************************************)
\* statements of one module (sum of the lengths of all its statement lists)
MaxStmts == 4
\* statements of one statement list
MaxLen == 2
\* compound statements (if / for / def) open at the same time
MaxNest == 2
\* expressions of one module
MaxExprs == 6
\* diagnostics the inference context may hold
MaxDiags == 2
\* entries into infer_expr, within one call, before a concurrent cancel() lands
MaxEntries == 3
\* parameters of a built-in function
MaxParams == 3
\* arguments of a call
MaxArgs == 2
\* targets of a destructuring assignment, and element types of a tuple type
MaxElems == 3
\* paths given to run_check
MaxPaths == 2

(***************************************************************************)
(* Program constants.                                                      *)
(***************************************************************************)
\* CodeFlowLowerCtx::new allocates Unreachable first: arena index 0
unreachable_node == 0
\* ... and Start second: arena index 1
start_node == 1
\* Option::None for a FlowNodeId
NoNode == 0 - 1

VARIABLES
    \* CodeFlowGraph.flow_nodes: the arena; node id i is flow_nodes[i + 1]
    flow_nodes,
    \* CodeFlowGraph.hir_to_flow_node: ScopeHirId -> FlowNodeId
    hir_to_flow_node,
    \* CodeFlowLowerCtx.curr_node
    curr_node,
    \* CodeFlowLowerCtx.curr_break_target (NoNode for None)
    curr_break_target,
    \* CodeFlowLowerCtx.curr_continue_target (NoNode for None)
    curr_continue_target,
    \* the open activations of lower_stmts / lower_stmt, innermost last
    stack,
    \* the HIR arenas' next free StmtId / ExprId of the module being read
    next_stmt,
    next_expr,
    \* statements the module may still hold (MaxStmts minus those placed)
    stmts_left,
    \* the step just taken: its kind, the curr_node it started from, and the
    \* activation record it opened or closed
    last,
    \* lower_to_code_flow_graph has returned
    done,
    \* SharedState.cancelled
    cancelled,
    \* the Mutex of GlobalCtxt.cx: its owner, or "none"
    cx_lock,
    \* InferenceCtxt.type_of_expr: <<file, expr>> -> Ty
    type_of_expr,
    \* InferenceCtxt.param_tys: <<file, param>> -> Ty
    param_tys,
    \* InferenceCtxt.diagnostics
    diagnostics,
    \* the engine's inputs: which module each file holds
    contents,
    \* where each inference thread is: "idle" or "in_tcx" (inside the closure
    \* of with_tcx)
    pc,
    \* where each owner of a CancelGuard is: "idle", "alive" (guard held),
    \* "drop_locked", "drop_stored" (inside CancelGuard::drop)
    guard,
    \* the files whose contents were changed under each guard
    changed,
    \* for each guard being dropped: another guard was created after its
    \* store(false)
    overlap,
    \* the first return of infer_expr, [key, ty], since the last input change
    \* or cache reset; NoWatch when there is none
    watch,
    \* an inference call has unwound, since the last reset, after it had
    \* written to the context
    unwound,
    \* the step of the inference part just taken
    tc_last,
    \* for each thread inside infer_all_exprs: the file and the next expression
    \* of `exprs.iter()`
    exprs_iter,
    \* func.params(db) of the built-in function being called
    func_params,
    \* the slots of the call being inferred
    slots,
    \* arguments of the call bound so far
    next_arg,
    \* where the inference of the call is: "idle" (no call), "args" (slots
    \* built, arguments being bound), "done" (validated)
    infer_pc,
    \* the inference function just applied, with its arguments and its result
    infer_last,
    \* where run_check is: "paths" (the loop over the paths), "render" (the
    \* loop over file_ids), "printed", and how it ended: "exit1"
    \* (process::exit(1)), "ok" (Ok(())), "err" (an Err returned)
    check_pc,
    \* paths visited so far
    paths_seen,
    \* the paths the PathInterner holds
    interned,
    \* file_ids, each with the dialect of its create_file
    file_ids,
    \* files of file_ids whose diagnostics are rendered
    next_file,
    \* rendered_diagnostics, a line per diagnostic
    rendered_diagnostics,
    \* has_error
    has_error,
    \* what was printed
    stdout,
    \* the step of run_check just taken
    check_last

flow_vars == <<flow_nodes, hir_to_flow_node, curr_node, curr_break_target,
               curr_continue_target, stack, next_stmt, next_expr, stmts_left,
               last, done>>

tc_vars == <<cancelled, cx_lock, type_of_expr, param_tys, diagnostics, contents, pc, guard, changed, overlap, watch, unwound,
             tc_last, exprs_iter>>

infer_vars == <<func_params, slots, next_arg, infer_pc, infer_last>>

check_vars == <<check_pc, paths_seen, interned, file_ids, next_file,
                rendered_diagnostics, has_error, stdout, check_last>>

vars == <<flow_vars, tc_vars, infer_vars, check_vars>>

----------------------------------------------------------------------------
(***************************************************************************)
(* HIR expressions, as far as the builder looks at them.                   *)
(***************************************************************************)
Name(i) == [e |-> "Name", id |-> i]
Literal(i) == [e |-> "Literal", id |-> i]
Tuple(i, es) == [e |-> "Tuple", id |-> i, exprs |-> es]
Paren(i, x) == [e |-> "Paren", id |-> i, expr |-> x]
CompFor(it, ts) == [c |-> "For", iterable |-> it, targets |-> ts]
CompIf(t) == [c |-> "If", test |-> t]
ListComp(i, x, cs) == [e |-> "ListComp", id |-> i, expr |-> x, comp_clauses |-> cs]

\* Expr::walk_child_exprs for the expression kinds of the model
child_exprs(expr) ==
    CASE expr.e = "Tuple" -> expr.exprs
      [] expr.e = "List" -> expr.exprs
      [] expr.e = "Paren" -> <<expr.expr>>
      [] OTHER -> <<>>

\* the right-hand sides / tests / iterables the model draws, ids from b on
SourceShapes(b) ==
    { [x |-> Literal(b), n |-> 1],
      [x |-> Name(b), n |-> 1],
      [x |-> ListComp(b, Name(b + 1), <<CompFor(Name(b + 2), <<Name(b + 3)>>)>>),
       n |-> 4] }

\* the assignment targets the model draws, ids from b on
TargetShapes(b) ==
    { [x |-> Name(b), n |-> 1],
      [x |-> Tuple(b, <<Name(b + 1), Name(b + 2)>>), n |-> 3] }

\* the target lists of a `for` statement
ForTargetShapes(b) ==
    { [xs |-> <<Name(b)>>, n |-> 1],
      [xs |-> <<Name(b), Name(b + 1)>>, n |-> 2] }

----------------------------------------------------------------------------
(***************************************************************************)
(* The arena and the HIR map.                                              *)
(***************************************************************************)
EmptyMap == [k \in {} |-> 0]

Insert(h, key, v) == [k \in (DOMAIN h) \cup {key} |-> IF k = key THEN v ELSE h[k]]

ExprKey(i) == <<"expr", i>>
StmtKey(i) == <<"stmt", i>>
ModuleKey == <<"module", 0>>

Node(nodes, id) == nodes[id + 1]

\* Arena::alloc: the new node's id is the arena's length
new_flow_node(nodes, data) == Append(nodes, data)
NewId(nodes) == Len(nodes)

Contains(s, x) == \E i \in 1..Len(s) : s[i] = x

\* push_antecedent with the duplicate test left out
push_antecedent_nodedup(nodes, this, antecedent) ==
    IF antecedent # unreachable_node
    THEN [nodes EXCEPT ![this + 1].antecedents = Append(@, antecedent)]
    ELSE nodes

\* CodeFlowLowerCtx::push_antecedent (`this` is a Branch or a Loop)
push_antecedent(nodes, this, antecedent) ==
    IF antecedent # unreachable_node
       /\ ~Contains(Node(nodes, this).antecedents, antecedent)
    THEN [nodes EXCEPT ![this + 1].antecedents = Append(@, antecedent)]
    ELSE nodes

----------------------------------------------------------------------------
(***************************************************************************)
(* lower_expr, lower_assignment_target, lower_comp_clauses: cx is the part *)
(* of the context they change, [nodes, hir, curr].                         *)
(***************************************************************************)
RECURSIVE lower_expr(_, _)
RECURSIVE lower_exprs(_, _)
RECURSIVE lower_assignment_target(_, _, _)
RECURSIVE lower_assignment_targets(_, _, _)
RECURSIVE lower_comp_clauses(_, _)

\* `for expr in exprs { self.lower_expr(expr) }`
lower_exprs(cx, exprs) ==
    IF exprs = <<>> THEN cx
    ELSE lower_exprs(lower_expr(cx, Head(exprs)), Tail(exprs))

\* CodeFlowLowerCtx::lower_expr
lower_expr(cx, expr) ==
    CASE expr.e = "Name" ->
           [cx EXCEPT !.hir = Insert(@, ExprKey(expr.id), cx.curr)]
      [] expr.e = "DictComp" ->
           lower_expr(lower_expr(lower_comp_clauses(cx, expr.comp_clauses),
                                 expr.entry.key), expr.entry.value)
      [] expr.e = "ListComp" ->
           lower_expr(lower_comp_clauses(cx, expr.comp_clauses), expr.expr)
      [] OTHER -> lower_exprs(cx, child_exprs(expr))

\* `for target in targets { self.lower_assignment_target(target, source) }`
lower_assignment_targets(cx, exprs, source) ==
    IF exprs = <<>> THEN cx
    ELSE lower_assignment_targets(
             lower_assignment_target(cx, Head(exprs), source), Tail(exprs), source)

\* CodeFlowLowerCtx::lower_assignment_target
lower_assignment_target(cx, expr, source) ==
    LET c1 == lower_expr(cx, source) IN
    CASE expr.e = "Name" ->
           LET assign_node == NewId(c1.nodes) IN
           [nodes |-> new_flow_node(c1.nodes,
                          [n |-> "Assign", expr |-> expr.id, source |-> source.id,
                           antecedent |-> c1.curr]),
            curr |-> assign_node,
            hir |-> Insert(c1.hir, ExprKey(expr.id), assign_node)]
      [] expr.e = "Paren" -> lower_assignment_target(c1, expr.expr, source)
      [] expr.e \in {"Tuple", "List"} ->
           lower_assignment_targets(c1, expr.exprs, source)
      [] OTHER -> lower_exprs(c1, child_exprs(expr))

\* CodeFlowLowerCtx::lower_comp_clauses
lower_comp_clauses(cx, comp_clauses) ==
    IF comp_clauses = <<>> THEN cx
    ELSE LET cl == Head(comp_clauses) IN
         lower_comp_clauses(
             IF cl.c = "For"
             THEN lower_assignment_targets(lower_expr(cx, cl.iterable),
                                           cl.targets, cl.iterable)
             ELSE lower_expr(cx, cl.test),
             Tail(comp_clauses))

Cx == [nodes |-> flow_nodes, hir |-> hir_to_flow_node, curr |-> curr_node]

----------------------------------------------------------------------------
(***************************************************************************)
(* The walk.  Activation records:                                          *)
(*   [k |-> "stmts", rest, started]   lower_stmts: statements not yet      *)
(*        visited, and whether one has been lowered (the Unreachable test  *)
(*        of lines 83-85 runs after a statement, never before the first)   *)
(*   [k |-> "if", pre_if_node, post_if_node, els, phase, then_end]         *)
(*   [k |-> "elif"]                   lower_stmt(elif_stmt) about to run   *)
(*   [k |-> "for", pre_for_node, post_for_node, prev_break_target,         *)
(*        prev_continue_target, entry]                                     *)
(*   [k |-> "def", saved_curr_node, stmt]                                  *)
(* then_end and entry only record a value the code passed to               *)
(* push_antecedent (lines 120 and 172).                                    *)
(***************************************************************************)
NoFrame == [k |-> "none"]

Top == stack[Len(stack)]
Pop(s) == SubSeq(s, 1, Len(s) - 1)

StmtsFrame(n) == [k |-> "stmts", rest |-> n, started |-> FALSE]

\* lower_stmts without the test of lines 83-85
AtStmt_nounreachabletest ==
    /\ ~done
    /\ stack # <<>>
    /\ Top.k = "stmts"
    /\ Top.rest > 0

\* lower_stmts is about to call lower_stmt on its next statement
AtStmt ==
    /\ ~done
    /\ stack # <<>>
    /\ Top.k = "stmts"
    /\ Top.rest > 0
    /\ (~Top.started \/ curr_node # unreachable_node)

\* the `elif` arm of an if is about to call lower_stmt(elif_stmt)
AtElif == ~done /\ stack # <<>> /\ Top.k = "elif"

\* the stack once lower_stmt has been called on the next statement
Called(s) ==
    IF s[Len(s)].k = "elif" THEN Pop(s)
    ELSE [s EXCEPT ![Len(s)] = [@ EXCEPT !.rest = @ - 1, !.started = TRUE]]

Nesting(s) == Cardinality({i \in 1..Len(s) : s[i].k \in {"if", "for", "def"}})

\* the innermost open activation of kind k, NoFrame when there is none
Innermost(s, k) ==
    LET is == {i \in 1..Len(s) : s[i].k = k} IN
    IF is = {} THEN NoFrame
    ELSE s[CHOOSE i \in is : \A j \in is : j <= i]

BodyLens == 1..(IF stmts_left < MaxLen THEN stmts_left ELSE MaxLen)

\* the inference threads, the owners of CancelGuards, the files
Threads == {"t1", "t2"}
Cancellers == {"g1", "g2"}
Files == {"A", "B"}

NoWatch == [key |-> <<>>]
\* a thread that is not inside infer_all_exprs
NoIter == [file |-> "none"]

\* no step of the inference part taken yet
NoStep == [op |-> "none"]

\* GlobalCtxt::default(): the flag lowered, the mutex free, the context empty;
\* file A holds module 1, file B module 3
TcNew ==
    /\ cancelled = FALSE
    /\ cx_lock = "none"
    /\ type_of_expr = EmptyMap
    /\ param_tys = EmptyMap
    /\ diagnostics = <<>>
    /\ contents = [f \in Files |-> IF f = "A" THEN 1 ELSE 3]
    /\ pc = [t \in Threads |-> "idle"]
    /\ guard = [c \in Cancellers |-> "idle"]
    /\ changed = [c \in Cancellers |-> {}]
    /\ overlap = [c \in Cancellers |-> FALSE]
    /\ watch = NoWatch
    /\ unwound = FALSE
    /\ tc_last = NoStep
    /\ exprs_iter = [t \in Threads |-> NoIter]

\* no call being inferred, no function applied
InferNew ==
    /\ func_params = <<>>
    /\ slots = <<>>
    /\ next_arg = 0
    /\ infer_pc = "idle"
    /\ infer_last = NoStep

\* run_check before its first path, lines 48-52 and 84-85
CheckNew ==
    /\ check_pc = "paths"
    /\ paths_seen = 0
    /\ interned = {}
    /\ file_ids = <<>>
    /\ next_file = 0
    /\ rendered_diagnostics = <<>>
    /\ has_error = FALSE
    /\ stdout = <<>>
    /\ check_last = NoStep

\* CodeFlowLowerCtx::new, and lower_stmts entered on a module of n statements
FlowNew(n) ==
    /\ flow_nodes = <<[n |-> "Unreachable"], [n |-> "Start"]>>
    /\ hir_to_flow_node = EmptyMap
    /\ curr_node = start_node
    /\ curr_break_target = NoNode
    /\ curr_continue_target = NoNode
    /\ stack = <<StmtsFrame(n)>>
    /\ stmts_left = MaxStmts - n
    /\ next_stmt = 0
    /\ next_expr = 0
    /\ last = [op |-> "new", curr |-> start_node, frame |-> NoFrame]
    /\ done = FALSE

InitFlow ==
    /\ \E n \in 0..MaxLen : FlowNew(n)
    /\ TcNew
    /\ InferNew
    /\ CheckNew

\* Stmt::Assign, lines 91-96
AssignStmt ==
    /\ UNCHANGED <<tc_vars, infer_vars, check_vars>>
    /\ AtStmt
    /\ \E lhs \in TargetShapes(next_expr) :
       \E rhs \in SourceShapes(next_expr + lhs.n) :
          /\ next_expr + lhs.n + rhs.n <= MaxExprs
          /\ LET cx == lower_assignment_target(Cx, lhs.x, rhs.x) IN
             /\ flow_nodes' = cx.nodes
             /\ curr_node' = cx.curr
             /\ hir_to_flow_node' = Insert(cx.hir, StmtKey(next_stmt), cx.curr)
          /\ next_expr' = next_expr + lhs.n + rhs.n
          /\ last' = [op |-> "assign", curr |-> curr_node, frame |-> NoFrame,
                      targets |-> <<lhs.x>>, source |-> rhs.x]
    /\ next_stmt' = next_stmt + 1
    /\ stack' = Called(stack)
    /\ UNCHANGED <<curr_break_target, curr_continue_target, stmts_left, done>>

\* Stmt::Return { expr: Some(expr) } and Stmt::Expr, lines 140-146
ExprStmt ==
    /\ UNCHANGED <<tc_vars, infer_vars, check_vars>>
    /\ AtStmt
    /\ \E x \in SourceShapes(next_expr) :
          /\ next_expr + x.n <= MaxExprs
          /\ LET cx == lower_expr(Cx, x.x) IN
             /\ flow_nodes' = cx.nodes
             /\ curr_node' = cx.curr
             /\ hir_to_flow_node' = cx.hir
          /\ next_expr' = next_expr + x.n
    /\ next_stmt' = next_stmt + 1
    /\ stack' = Called(stack)
    /\ last' = [op |-> "expr", curr |-> curr_node, frame |-> NoFrame]
    /\ UNCHANGED <<curr_break_target, curr_continue_target, stmts_left, done>>

\* the `_ => {}` arm, line 200: pass, load, a bare return
PassStmt ==
    /\ UNCHANGED <<tc_vars, infer_vars, check_vars>>
    /\ AtStmt
    /\ next_stmt' = next_stmt + 1
    /\ stack' = Called(stack)
    /\ last' = [op |-> "pass", curr |-> curr_node, frame |-> NoFrame]
    /\ UNCHANGED <<flow_nodes, hir_to_flow_node, curr_node, curr_break_target,
                   curr_continue_target, next_expr, stmts_left, done>>

\* `break` reading the `continue` target
BreakTarget_continue == curr_continue_target

\* the target a `break` reads, line 194
BreakTarget == curr_break_target

\* the target a `continue` reads, line 187
ContinueTarget == curr_continue_target

\* Stmt::Continue, lines 186-191
ContinueStmt ==
    /\ UNCHANGED <<tc_vars, infer_vars, check_vars>>
    /\ AtStmt
    /\ flow_nodes' = IF ContinueTarget # NoNode
                     THEN push_antecedent(flow_nodes, ContinueTarget, curr_node)
                     ELSE flow_nodes
    /\ curr_node' = unreachable_node
    /\ next_stmt' = next_stmt + 1
    /\ stack' = Called(stack)
    /\ last' = [op |-> "continue", curr |-> curr_node,
                frame |-> Innermost(stack, "for")]
    /\ UNCHANGED <<hir_to_flow_node, curr_break_target, curr_continue_target,
                   next_expr, stmts_left, done>>

\* Stmt::Break, lines 193-198
BreakStmt ==
    /\ UNCHANGED <<tc_vars, infer_vars, check_vars>>
    /\ AtStmt
    /\ flow_nodes' = IF BreakTarget # NoNode
                     THEN push_antecedent(flow_nodes, BreakTarget, curr_node)
                     ELSE flow_nodes
    /\ curr_node' = unreachable_node
    /\ next_stmt' = next_stmt + 1
    /\ stack' = Called(stack)
    /\ last' = [op |-> "break", curr |-> curr_node,
                frame |-> Innermost(stack, "for")]
    /\ UNCHANGED <<hir_to_flow_node, curr_break_target, curr_continue_target,
                   next_expr, stmts_left, done>>

\* Stmt::Def, line 99, and with_new_start_node up to its call of f, lines 300-302
DefStmt ==
    /\ UNCHANGED <<tc_vars, infer_vars, check_vars>>
    /\ AtStmt
    /\ Nesting(stack) < MaxNest
    /\ \E n \in BodyLens :
          /\ stmts_left' = stmts_left - n
          /\ LET fr == [k |-> "def", saved_curr_node |-> curr_node,
                        stmt |-> next_stmt, body_start |-> NewId(flow_nodes)] IN
             /\ stack' = Called(stack) \o <<fr, StmtsFrame(n)>>
             /\ last' = [op |-> "def", curr |-> curr_node, frame |-> fr]
    /\ flow_nodes' = new_flow_node(flow_nodes, [n |-> "Start"])
    /\ curr_node' = NewId(flow_nodes)
    /\ next_stmt' = next_stmt + 1
    /\ UNCHANGED <<hir_to_flow_node, curr_break_target, curr_continue_target,
                   next_expr, done>>

\* with_new_start_node that leaves the body's last node current
restore_curr_node_kept(saved_curr_node, curr) == curr

\* `self.curr_node = saved_curr_node`, line 304
restore_curr_node(saved_curr_node, curr) == saved_curr_node

\* with_new_start_node after f returned, lines 303-304, then lines 103-105
DefEnd ==
    /\ UNCHANGED <<tc_vars, infer_vars, check_vars>>
    /\ ~done
    /\ stack # <<>>
    /\ Top.k = "def"
    /\ curr_node' = restore_curr_node(Top.saved_curr_node, curr_node)
    /\ hir_to_flow_node' =
          Insert(Insert(hir_to_flow_node, StmtKey(Top.stmt), curr_node),
                 StmtKey(Top.stmt), curr_node')
    /\ stack' = Pop(stack)
    /\ last' = [op |-> "def_end", curr |-> curr_node, frame |-> Top]
    /\ UNCHANGED <<flow_nodes, curr_break_target, curr_continue_target,
                   next_stmt, next_expr, stmts_left, done>>

\* Stmt::If up to the call of lower_stmts(if_stmts), lines 108-119
IfStmt ==
    /\ UNCHANGED <<tc_vars, infer_vars, check_vars>>
    /\ AtStmt \/ AtElif
    /\ Nesting(stack) < MaxNest
    /\ \E test \in SourceShapes(next_expr) :
       \E n \in BodyLens :
       \E els \in {"none", "else", "elif"} :
          /\ next_expr + test.n <= MaxExprs
          /\ next_expr' = next_expr + test.n
          /\ stmts_left' = stmts_left - n
          /\ LET cx == lower_expr(Cx, test.x)
                 pre_if_node == cx.curr
                 post_if_node == NewId(cx.nodes)
                 fr == [k |-> "if", pre_if_node |-> pre_if_node,
                        post_if_node |-> post_if_node, els |-> els,
                        phase |-> "then", then_end |-> NoNode] IN
             /\ flow_nodes' = new_flow_node(cx.nodes,
                                  [n |-> "Branch", antecedents |-> <<>>])
             /\ hir_to_flow_node' = cx.hir
             /\ curr_node' = cx.curr
             /\ stack' = Called(stack) \o <<fr, StmtsFrame(n)>>
             /\ last' = [op |-> "if", curr |-> curr_node, frame |-> fr]
    /\ next_stmt' = next_stmt + 1
    /\ UNCHANGED <<curr_break_target, curr_continue_target, done>>

\* an `if` without else that forgets the fall-through edge
if_fallthrough_missing(nodes, post_if_node, pre_if_node) == nodes

\* the `_` arm of the match on elif_or_else_stmts, line 133
if_fallthrough(nodes, post_if_node, pre_if_node) ==
    push_antecedent(nodes, post_if_node, pre_if_node)

\* Stmt::If after lower_stmts(if_stmts) returned, lines 120-135 up to the
\* call that lowers the else / elif part; without one, to the end (line 137)
IfThenEnd ==
    /\ UNCHANGED <<tc_vars, infer_vars, check_vars>>
    /\ ~done
    /\ stack # <<>>
    /\ Top.k = "if"
    /\ Top.phase = "then"
    /\ LET fr == [Top EXCEPT !.then_end = curr_node]
           n1 == push_antecedent(flow_nodes, fr.post_if_node, curr_node) IN
       CASE fr.els = "elif" ->
              /\ flow_nodes' = n1
              /\ curr_node' = fr.pre_if_node
              /\ stack' = Pop(stack) \o <<[fr EXCEPT !.phase = "else"], [k |-> "elif"]>>
              /\ last' = [op |-> "if_then_end", curr |-> curr_node, frame |-> fr]
              /\ UNCHANGED stmts_left
         [] fr.els = "else" ->
              /\ stmts_left > 0
              /\ flow_nodes' = n1
              /\ curr_node' = fr.pre_if_node
              /\ \E n \in BodyLens :
                    /\ stmts_left' = stmts_left - n
                    /\ stack' = Pop(stack) \o <<[fr EXCEPT !.phase = "else"],
                                                StmtsFrame(n)>>
              /\ last' = [op |-> "if_then_end", curr |-> curr_node, frame |-> fr]
         [] OTHER ->
              /\ flow_nodes' = if_fallthrough(n1, fr.post_if_node, fr.pre_if_node)
              /\ curr_node' = fr.post_if_node
              /\ stack' = Pop(stack)
              /\ last' = [op |-> "if_end", curr |-> curr_node, frame |-> fr]
              /\ UNCHANGED stmts_left
    /\ UNCHANGED <<hir_to_flow_node, curr_break_target, curr_continue_target,
                   next_stmt, next_expr, done>>

\* Stmt::If after the else / elif part returned, lines 125 / 130 and 137
IfElseEnd ==
    /\ UNCHANGED <<tc_vars, infer_vars, check_vars>>
    /\ ~done
    /\ stack # <<>>
    /\ Top.k = "if"
    /\ Top.phase = "else"
    /\ flow_nodes' = push_antecedent(flow_nodes, Top.post_if_node, curr_node)
    /\ curr_node' = Top.post_if_node
    /\ stack' = Pop(stack)
    /\ last' = [op |-> "if_end", curr |-> curr_node, frame |-> Top]
    /\ UNCHANGED <<hir_to_flow_node, curr_break_target, curr_continue_target,
                   next_stmt, next_expr, stmts_left, done>>

\* Stmt::For up to the call of lower_stmts(stmts), lines 148-174
ForStmt ==
    /\ UNCHANGED <<tc_vars, infer_vars, check_vars>>
    /\ AtStmt
    /\ Nesting(stack) < MaxNest
    /\ \E targets \in ForTargetShapes(next_expr) :
       \E iterable \in SourceShapes(next_expr + targets.n) :
       \E n \in BodyLens :
          /\ next_expr + targets.n + iterable.n <= MaxExprs
          /\ next_expr' = next_expr + targets.n + iterable.n
          /\ stmts_left' = stmts_left - n
          /\ LET cx == lower_assignment_targets(Cx, targets.xs, iterable.x)
                 pre_for_node == NewId(cx.nodes)
                 post_for_node == pre_for_node + 1
                 n1 == new_flow_node(cx.nodes, [n |-> "Loop", antecedents |-> <<>>])
                 n2 == new_flow_node(n1, [n |-> "Branch", antecedents |-> <<>>])
                 fr == [k |-> "for", pre_for_node |-> pre_for_node,
                        post_for_node |-> post_for_node,
                        prev_break_target |-> curr_break_target,
                        prev_continue_target |-> curr_continue_target,
                        entry |-> cx.curr] IN
             /\ flow_nodes' = push_antecedent(n2, pre_for_node, cx.curr)
             /\ hir_to_flow_node' = cx.hir
             /\ curr_break_target' = post_for_node
             /\ curr_continue_target' = pre_for_node
             /\ curr_node' = pre_for_node
             /\ stack' = Called(stack) \o <<fr, StmtsFrame(n)>>
             /\ last' = [op |-> "for", curr |-> curr_node, frame |-> fr,
                         targets |-> targets.xs, source |-> iterable.x]
    /\ next_stmt' = next_stmt + 1
    /\ UNCHANGED done

\* the wiring of a `for` without the edge from the body's end back to the loop
for_wire_nobackedge(nodes, pre_for_node, post_for_node, curr) ==
    push_antecedent(nodes, post_for_node, pre_for_node)

\* "Wire up the pre-`for` and post-`for` nodes", lines 177-178
for_wire(nodes, pre_for_node, post_for_node, curr) ==
    push_antecedent(push_antecedent(nodes, pre_for_node, curr),
                    post_for_node, pre_for_node)

\* a `for` that leaves its own target in force
restore_target_kept(prev_target, curr_target) == curr_target

\* "Restore the previous break and continue targets", lines 182-183
restore_target(prev_target, curr_target) == prev_target

\* Stmt::For after lower_stmts(stmts) returned, lines 176-183
ForEnd ==
    /\ UNCHANGED <<tc_vars, infer_vars, check_vars>>
    /\ ~done
    /\ stack # <<>>
    /\ Top.k = "for"
    /\ flow_nodes' = for_wire(flow_nodes, Top.pre_for_node, Top.post_for_node,
                              curr_node)
    /\ curr_node' = Top.post_for_node
    /\ curr_break_target' = restore_target(Top.prev_break_target, curr_break_target)
    /\ curr_continue_target' =
          restore_target(Top.prev_continue_target, curr_continue_target)
    /\ stack' = Pop(stack)
    /\ last' = [op |-> "for_end", curr |-> curr_node, frame |-> Top]
    /\ UNCHANGED <<hir_to_flow_node, next_stmt, next_expr, stmts_left, done>>

\* lower_stmts returns, lines 77-87: the list is exhausted, or the statement
\* just lowered left curr_node at the Unreachable node (`break`, line 84)
StmtsEnd ==
    /\ UNCHANGED <<tc_vars, infer_vars, check_vars>>
    /\ ~done
    /\ Len(stack) > 1
    /\ Top.k = "stmts"
    /\ Top.rest = 0 \/ (Top.started /\ curr_node = unreachable_node)
    /\ stack' = Pop(stack)
    /\ last' = [op |-> "stmts_end", curr |-> curr_node, frame |-> Top]
    /\ UNCHANGED <<flow_nodes, hir_to_flow_node, curr_node, curr_break_target,
                   curr_continue_target, next_stmt, next_expr, stmts_left, done>>

\* lower_to_code_flow_graph, lines 308-315, once lower_stmts(top_level) returned
Finish ==
    /\ UNCHANGED <<tc_vars, infer_vars, check_vars>>
    /\ ~done
    /\ Len(stack) = 1
    /\ Top.k = "stmts"
    /\ Top.rest = 0 \/ (Top.started /\ curr_node = unreachable_node)
    /\ hir_to_flow_node' = Insert(hir_to_flow_node, ModuleKey, curr_node)
    /\ stack' = <<>>
    /\ done' = TRUE
    /\ last' = [op |-> "finish", curr |-> curr_node, frame |-> Top]
    /\ UNCHANGED <<flow_nodes, curr_node, curr_break_target, curr_continue_target,
                   next_stmt, next_expr, stmts_left>>

NextFlow ==
    \/ AssignStmt
    \/ ExprStmt
    \/ PassStmt
    \/ ContinueStmt
    \/ BreakStmt
    \/ DefStmt
    \/ DefEnd
    \/ IfStmt
    \/ IfThenEnd
    \/ IfElseEnd
    \/ ForStmt
    \/ ForEnd
    \/ StmtsEnd
    \/ Finish

SpecFlow == InitFlow /\ [][NextFlow]_vars

----------------------------------------------------------------------------
(***************************************************************************)
(* Type inference (typeck.rs).  Types, and the HIR of the modules the      *)
(* files can hold.  An ExprId i of a module is exprs[i + 1].               *)
(***************************************************************************)
TyAny == [k |-> "Any"]
TyUnknown == [k |-> "Unknown"]
TyUnbound == [k |-> "Unbound"]
TyInt == [k |-> "Int"]
TyString == [k |-> "String"]
TyList(ty) == [k |-> "List", ty |-> ty]
TyTuple(tys) == [k |-> "Tuple", tys |-> tys]
TyDict(kty, vty) == [k |-> "Dict", key |-> kty, value |-> vty]
TyBool == [k |-> "Bool"]
TyFloat == [k |-> "Float"]
TyBoundVar(index) == [k |-> "BoundVar", index |-> index]

\* what Resolver::resolve_name finds last for a name
VarDecl(i, src) == [d |-> "Variable", id |-> i, source |-> src]
ParamDecl(p) == [d |-> "Parameter", id |-> p]
NoDecl == [d |-> "None"]

HName(decl) == [e |-> "Name", decl |-> decl]
HLiteral(lit) == [e |-> "Literal", literal |-> lit]
HTuple(es) == [e |-> "Tuple", exprs |-> es]
HList(es) == [e |-> "List", exprs |-> es]
HParen(x) == [e |-> "Paren", expr |-> x]
HDot(x, field) == [e |-> "Dot", expr |-> x, field |-> field]

\* the syntax parent of a source expression
AssignParent(lhs) == [k |-> "assign", lhs |-> lhs]
ForParent(targets) == [k |-> "for", targets |-> targets]

\* module 1:   x, (y) = 1
\*             x
\*   0 x   1 y   2 (y)   3 x, (y)   4 1   5 x
\* module 2:   def f(p): p, u
\*   0 p   1 u   2 p, u
\* module 3:   n = 1
\*   0 n   1 1
\* module 4:   t0, t1, ... = s     (MaxElems targets)
\*   i t_i (i < MaxElems)   MaxElems  t0, t1, ...   MaxElems + 1  s
TargetsModule ==
    [exprs |-> [i \in 1..MaxElems |-> HName(VarDecl(i - 1, MaxElems + 1))]
               \o <<HTuple([i \in 1..MaxElems |-> i - 1]), HName(NoDecl)>>,
     parent |-> ((MaxElems + 1) :> AssignParent(MaxElems)),
     params |-> <<>>]

\* module 5:   x = u
\*             u.f   (1).f   1 .f   x.f   "s".upper   "s".
\*   0 x   1 u   2 u.f   3 1   4 (1)   5 (1).f   6 1 .f   7 x   8 x.f
\*   9 "s"   10 "s".upper   11 "s".
DotModule ==
    [exprs |-> <<HName(VarDecl(0, 1)), HName(NoDecl), HDot(1, "f"),
                 HLiteral("Int"), HParen(3), HDot(4, "f"), HDot(3, "f"),
                 HName(VarDecl(0, 1)), HDot(7, "f"),
                 HLiteral("String"), HDot(9, "upper"), HDot(9, "")>>,
     parent |-> (1 :> AssignParent(0)),
     params |-> <<>>]

\* module 6:   a, b = 1, 2, 3
\*             a   b
\*   0 a   1 b   2 a, b   3 1   4 2   5 3   6 1, 2, 3   7 a   8 b
MismatchModule ==
    [exprs |-> <<HName(VarDecl(0, 6)), HName(VarDecl(1, 6)), HTuple(<<0, 1>>),
                 HLiteral("Int"), HLiteral("Int"), HLiteral("Int"),
                 HTuple(<<3, 4, 5>>),
                 HName(VarDecl(0, 6)), HName(VarDecl(1, 6))>>,
     parent |-> (6 :> AssignParent(2)),
     params |-> <<>>]

\* module 7:   a, b = u, 1
\*             c = v
\*             [d] = [w]
\*   0 a   1 b   2 a, b   3 u   4 1   5 u, 1   6 c   7 v
\*   8 d   9 [d]   10 w   11 [w]
UnboundModule ==
    [exprs |-> <<HName(VarDecl(0, 5)), HName(VarDecl(1, 5)), HTuple(<<0, 1>>),
                 HName(NoDecl), HLiteral("Int"), HTuple(<<3, 4>>),
                 HName(VarDecl(6, 7)), HName(NoDecl),
                 HName(VarDecl(8, 11)), HList(<<8>>), HName(NoDecl),
                 HList(<<10>>)>>,
     parent |-> (5 :> AssignParent(2) @@ 7 :> AssignParent(6)
                 @@ 11 :> AssignParent(9)),
     params |-> <<>>]

Modules ==
    << [exprs |-> <<HName(VarDecl(0, 4)), HName(VarDecl(1, 4)), HParen(1),
                    HTuple(<<0, 2>>), HLiteral("Int"), HName(VarDecl(0, 4))>>,
        parent |-> (4 :> AssignParent(3)),
        params |-> <<>>],
       [exprs |-> <<HName(ParamDecl(0)), HName(NoDecl), HTuple(<<0, 1>>)>>,
        parent |-> EmptyMap,
        params |-> <<[p |-> "Simple", type_ref |-> "none"]>>],
       [exprs |-> <<HName(VarDecl(0, 1)), HLiteral("Int")>>,
        parent |-> (1 :> AssignParent(0)),
        params |-> <<>>],
       TargetsModule, DotModule, MismatchModule, UnboundModule >>

\* the modules each file is given
ModulesOf(file) == IF file = "A" THEN {1, 2} ELSE {3}

\* lower_(db, file).module(db)
module(file) == Modules[contents[file]]

ExprIds(file) == 0..(Len(module(file).exprs) - 1)

(***************************************************************************)
(* Types: their text and their tests.                                      *)
(***************************************************************************)
RECURSIVE display(_)
RECURSIVE display_tys(_)

\* the element types of a tuple type, separated by ", "
display_tys(tys) ==
    IF tys = <<>> THEN ""
    ELSE IF Len(tys) = 1 THEN display(Head(tys))
    ELSE display(Head(tys)) \o ", " \o display_tys(Tail(tys))

\* TyKind::fmt
display(ty) ==
    CASE ty.k = "Bool" -> "bool"
      [] ty.k = "Int" -> "int"
      [] ty.k = "Float" -> "float"
      [] ty.k = "String" -> "string"
      [] ty.k = "List" -> "list[" \o display(ty.ty) \o "]"
      [] ty.k = "Tuple" -> "tuple[" \o display_tys(ty.tys) \o "]"
      [] ty.k = "Dict" ->
           "dict[" \o display(ty.key) \o ", " \o display(ty.value) \o "]"
      [] ty.k = "BoundVar" -> "'" \o ToString(ty.index)
      [] OTHER -> ty.k

\* Ty::is_any
is_any(ty) == ty = TyAny

\* is_unknown that does not count Unbound
is_unknown_notunbound(ty) == ty = TyUnknown

\* Ty::is_unknown
is_unknown(ty) == ty = TyUnknown \/ ty = TyUnbound

(***************************************************************************)
(* The inference functions.  st is what a call reads and writes: the three *)
(* maps of the InferenceCtxt, the flag as the call sees it (`countdown` is *)
(* the number of entries into infer_expr that are made before a concurrent *)
(* CancelGuard::new stores true, -1 when none does), `status` ("cancelled" *)
(* once TypecheckCancelled is thrown: everything is then skipped up to the *)
(* catcher), and `ret`, the value the function returns.                    *)
(***************************************************************************)
Ok(st) == st.status = "ok"

Return(st, v) == [st EXCEPT !.ret = v]

\* unwind_if_cancelled that never throws
unwind_if_cancelled_never(st) == st

\* TyCtxt::unwind_if_cancelled
unwind_if_cancelled(st) ==
    IF st.cancelled THEN [st EXCEPT !.status = "cancelled"] ELSE st

\* TyCtxt::set_expr_type
set_expr_type(st, file, expr, ty) ==
    [st EXCEPT !.type_of_expr = Insert(@, <<file, expr>>, ty), !.ret = ty]

\* TyCtxt::add_diagnostic (every expression of the modules has a source range)
add_diagnostic(st, file, expr, message) ==
    [st EXCEPT !.diagnostics =
                  Append(@, [file |-> file, expr |-> expr, message |-> message]),
               !.ret = TyUnknown]

\* TyCtxt::param_ty, for parameters without a type annotation
param_ty(st, file, param) ==
    LET key == <<file, param>> IN
    IF key \in DOMAIN st.param_tys THEN Return(st, st.param_tys[key])
    ELSE LET prm == module(file).params[param + 1]
             ty == CASE prm.p = "Simple" -> TyUnknown
                     [] prm.p = "ArgsList" -> TyList(TyUnknown)
                     [] OTHER -> TyDict(TyAny, TyAny)
         IN [st EXCEPT !.param_tys = Insert(@, key, ty), !.ret = ty]

\* sequencing: once TypecheckCancelled is thrown the rest of the call is skipped
Bind(st, F(_)) == IF Ok(st) THEN F(st) ELSE st

RECURSIVE assign_expr_unknown_rec(_, _, _)
RECURSIVE assign_exprs_unknown_rec(_, _, _)
RECURSIVE assign_expr_source_ty(_, _, _, _, _)
RECURSIVE assign_each(_, _, _, _, _)
RECURSIVE infer_expr(_, _, _)
RECURSIVE infer_exprs(_, _, _, _)
RECURSIVE all_same(_, _, _, _)
RECURSIVE infer_source_expr_assign(_, _, _)

\* `for expr in exprs { self.assign_expr_unknown_rec(file, *expr) }`
assign_exprs_unknown_rec(st, file, exprs) ==
    IF exprs = <<>> THEN st
    ELSE assign_exprs_unknown_rec(assign_expr_unknown_rec(st, file, Head(exprs)),
                                  file, Tail(exprs))

\* TyCtxt::assign_expr_unknown_rec
assign_expr_unknown_rec(st, file, expr) ==
    assign_exprs_unknown_rec(set_expr_type(st, file, expr, TyUnknown), file,
                             child_exprs(module(file).exprs[expr + 1]))

\* assign_expr_source_ty on exprs[i] with tys[i], in order (a zip)
assign_each(st, file, root, exprs, tys) ==
    IF exprs = <<>> \/ tys = <<>> THEN st
    ELSE assign_each(assign_expr_source_ty(st, file, root, Head(exprs), Head(tys)),
                     file, root, Tail(exprs), Tail(tys))

\* the message of the size mismatch, lines 1278-1282
tuple_size_mismatch_message(lhs, rhs) ==
    "Tuple size mismatch, " \o ToString(lhs) \o " on left-hand side and "
        \o ToString(rhs) \o " on right-hand side"

\* a size test that only sees a left-hand side that is too long
tuple_size_mismatch_onlylonger(st, file, root, exprs, tys) ==
    IF Len(exprs) > Len(tys)
    THEN add_diagnostic(
             assign_exprs_unknown_rec(
                 st, file, SubSeq(exprs, Len(tys) + 1, Len(exprs))),
             file, root, tuple_size_mismatch_message(Len(exprs), Len(tys)))
    ELSE st

\* the Tuple arm of assign_exprs_source_ty after the zip, lines 1270-1285
tuple_size_mismatch(st, file, root, exprs, tys) ==
    IF Len(exprs) # Len(tys)
    THEN add_diagnostic(
             IF Len(exprs) > Len(tys)
             THEN assign_exprs_unknown_rec(
                      st, file, SubSeq(exprs, Len(tys) + 1, Len(exprs)))
             ELSE st,
             file, root, tuple_size_mismatch_message(Len(exprs), Len(tys)))
    ELSE st

\* TyCtxt::assign_exprs_source_ty
assign_exprs_source_ty(st, file, root, exprs, source_ty) ==
    CASE source_ty.k = "List" ->
           assign_each(st, file, root, exprs,
                       [i \in 1..Len(exprs) |-> source_ty.ty])
      [] source_ty.k = "Tuple" ->
           tuple_size_mismatch(assign_each(st, file, root, exprs, source_ty.tys),
                               file, root, exprs, source_ty.tys)
      [] source_ty.k = "Any" ->
           assign_each(st, file, root, exprs, [i \in 1..Len(exprs) |-> TyAny])
      [] OTHER ->
           assign_exprs_unknown_rec(
               add_diagnostic(st, file, root, "is not iterable"), file, exprs)

\* TyCtxt::assign_expr_source_ty
assign_expr_source_ty(st, file, root, expr, source_ty) ==
    LET x == module(file).exprs[expr + 1] IN
    CASE x.e = "Name" -> set_expr_type(st, file, expr, source_ty)
      [] x.e \in {"List", "Tuple"} ->
           assign_exprs_source_ty(st, file, root, x.exprs, source_ty)
      [] x.e = "Paren" -> assign_expr_source_ty(st, file, root, x.expr, source_ty)
      [] OTHER -> st

\* infer_source_expr_assign once the source's type is known, lines 1188-1235
assign_source_ty(st, file, source, source_ty) ==
    LET parent == module(file).parent[source] IN
    IF parent.k = "assign"
    THEN assign_expr_source_ty(st, file, parent.lhs, parent.lhs, source_ty)
    ELSE
    LET targets == parent.targets IN
    IF source_ty.k \notin {"List", "Tuple", "Any", "Range"}
    THEN assign_exprs_unknown_rec(
             add_diagnostic(st, file, source, "is not iterable"), file, targets)
    ELSE
    LET sub_ty == CASE source_ty.k = "List" -> source_ty.ty
                    [] source_ty.k = "Range" -> TyInt
                    [] OTHER -> TyAny
    IN IF Len(targets) = 1
       THEN assign_expr_source_ty(st, file, targets[1], targets[1], sub_ty)
       ELSE assign_exprs_source_ty(st, file, source, targets, sub_ty)

\* TyCtxt::infer_source_expr_assign
infer_source_expr_assign(st, file, source) ==
    Bind(infer_expr(st, file, source),
         LAMBDA s1 : assign_source_ty(s1, file, source,
                                      IF s1.ret.k = "Unbound" THEN TyUnknown
                                      ELSE s1.ret))

\* `exprs.iter().map(|expr| self.infer_expr(file, *expr)).collect()`
infer_exprs(st, file, exprs, tys) ==
    IF exprs = <<>> THEN Return(st, tys)
    ELSE Bind(infer_expr(st, file, Head(exprs)),
              LAMBDA s1 : infer_exprs(s1, file, Tail(exprs), Append(tys, s1.ret)))

\* `exprs.map(|expr| self.infer_expr(file, expr)).all(|ty| ty == first_ty)`:
\* stops at the first type that differs
all_same(st, file, exprs, first_ty) ==
    IF exprs = <<>> THEN Return(st, TRUE)
    ELSE Bind(infer_expr(st, file, Head(exprs)),
              LAMBDA s1 : IF s1.ret # first_ty THEN Return(s1, FALSE)
                          ELSE all_same(s1, file, Tail(exprs), first_ty))

\* TyCtxt::get_common_type
get_common_type(st, file, exprs, default) ==
    IF exprs = <<>> THEN Return(st, default)
    ELSE Bind(infer_expr(st, file, Head(exprs)),
              LAMBDA s1 :
                 Bind(all_same(s1, file, Tail(exprs), s1.ret),
                      LAMBDA s2 : Return(s2, IF s2.ret THEN s1.ret ELSE default)))

\* the type the cache holds for a variable's declaring expression, or Unknown
declared_ty(st, file, id) ==
    IF <<file, id>> \in DOMAIN st.type_of_expr
    THEN st.type_of_expr[<<file, id>>]
    ELSE TyUnknown

\* `return ty` inside the match of infer_expr: the rest of the function is
\* skipped
ReturnEarly(st, ty) == [st EXCEPT !.ret = ty, !.status = "returned"]

\* Ty::fields for the types of the model: the fields of the built-in classes
fields(ty) ==
    IF ty = TyString
    THEN <<[name |-> "upper", ty |-> [k |-> "BuiltinFunction", name |-> "upper"]]>>
    ELSE <<>>

\* the Dot arm of infer_expr once the receiver's type is known, lines 723-761
dot_field(st, file, expr, field, receiver_ty) ==
    IF is_any(receiver_ty) THEN ReturnEarly(st, TyAny)
    ELSE IF is_unknown(receiver_ty) \/ field = "" THEN ReturnEarly(st, TyUnknown)
    ELSE IF \E i \in DOMAIN fields(receiver_ty) : fields(receiver_ty)[i].name = field
    THEN LET i == CHOOSE j \in DOMAIN fields(receiver_ty) :
                      /\ fields(receiver_ty)[j].name = field
                      /\ \A l \in 1..(j - 1) : fields(receiver_ty)[l].name # field
         IN  Return(st, fields(receiver_ty)[i].ty)
    ELSE add_diagnostic(st, file, expr,
                        "Cannot access field \"" \o field \o "\" for type \""
                            \o display(receiver_ty) \o "\"")

\* the match of infer_expr on the expression's kind, lines 625-1075
infer_kind(st, file, expr) ==
    LET x == module(file).exprs[expr + 1] IN
    CASE x.e = "Name" ->
           ( CASE x.decl.d = "Variable" ->
                    Bind(infer_source_expr_assign(st, file, x.decl.source),
                         LAMBDA s1 : Return(s1, declared_ty(s1, file, x.decl.id)))
               [] x.decl.d = "Parameter" -> param_ty(st, file, x.decl.id)
               [] OTHER ->
                    Return(add_diagnostic(st, file, expr, "is not defined"),
                           TyUnbound) )
      [] x.e = "List" ->
           Bind(get_common_type(st, file, x.exprs, TyUnknown),
                LAMBDA s1 : Return(s1, TyList(s1.ret)))
      [] x.e = "Literal" ->
           Return(st, [k |-> x.literal])
      [] x.e = "Tuple" ->
           Bind(infer_exprs(st, file, x.exprs, <<>>),
                LAMBDA s1 : Return(s1, TyTuple(s1.ret)))
      [] x.e = "Dot" ->
           Bind(infer_expr(st, file, x.expr),
                LAMBDA s1 : dot_field(s1, file, expr, x.field, s1.ret))
      [] OTHER -> Return(st, TyAny)

\* the end of infer_expr: line 1076, `self.set_expr_type(file, expr, ty)`,
\* which a `return` inside the match never reaches
infer_expr_end(st, file, expr) ==
    CASE st.status = "returned" -> [st EXCEPT !.status = "ok"]
      [] st.status = "ok" -> set_expr_type(st, file, expr, st.ret)
      [] OTHER -> st

\* an entry into infer_expr: the concurrent store(true), if one is due, has
\* landed
enter(st) ==
    [st EXCEPT !.cancelled = @ \/ st.countdown = 0,
               !.countdown = IF @ > 0 THEN @ - 1 ELSE 0 - 1]

\* a cached type is returned: counted when the flag is raised
cache_hit(st, file, expr) ==
    [st EXCEPT !.ret = st.type_of_expr[<<file, expr>>],
               !.hits_raised = @ + (IF st.cancelled THEN 1 ELSE 0)]

\* a type is about to be computed: counted when the flag is raised
cache_miss(st) ==
    [st EXCEPT !.computed_raised = @ + (IF st.cancelled THEN 1 ELSE 0)]

\* TyCtxt::infer_expr
infer_expr(st, file, expr) ==
    Bind(enter(st),
         LAMBDA s0 :
            IF <<file, expr>> \in DOMAIN s0.type_of_expr
            THEN cache_hit(s0, file, expr)
            ELSE Bind(unwind_if_cancelled(s0),
                      LAMBDA s1 :
                         infer_expr_end(infer_kind(cache_miss(s1), file, expr),
                                        file, expr)))

----------------------------------------------------------------------------
(***************************************************************************)
(* The threads: inference calls under with_tcx, and CancelGuards.          *)
(***************************************************************************)
\* the context as a call finds it; k is the countdown
Ctx(k) ==
    [type_of_expr |-> type_of_expr, param_tys |-> param_tys,
     diagnostics |-> diagnostics, cancelled |-> cancelled, countdown |-> k,
     status |-> "ok", ret |-> TyAny, hits_raised |-> 0, computed_raised |-> 0]

\* a lock() that does not wait for the owner to unlock
lock_ready_always(owner) == TRUE

\* Mutex::lock returns only when the mutex has no owner
lock_ready(owner) == owner = "none"

\* GlobalCtxt::with_tcx up to the call of f: `self.cx.lock()`
WithTcxLock(t) ==
    /\ pc[t] = "idle"
    /\ lock_ready(cx_lock)
    /\ cx_lock' = t
    /\ pc' = [pc EXCEPT ![t] = "in_tcx"]
    /\ tc_last' = [op |-> "lock"]
    /\ UNCHANGED <<cancelled, type_of_expr, param_tys, diagnostics, contents,
                   guard, changed, overlap, watch, unwound>>
    /\ UNCHANGED <<flow_vars, infer_vars, check_vars, exprs_iter>>

\* the closure of with_tcx returns: the MutexGuard is dropped
WithTcxExit(t) ==
    /\ pc[t] = "in_tcx"
    /\ cx_lock' = "none"
    /\ pc' = [pc EXCEPT ![t] = "idle"]
    /\ tc_last' = [op |-> "unlock"]
    /\ UNCHANGED <<cancelled, type_of_expr, param_tys, diagnostics, contents,
                   guard, changed, overlap, watch, unwound>>
    /\ UNCHANGED <<flow_vars, infer_vars, check_vars, exprs_iter>>

\* what a call tcx.infer_expr(file, expr) that ended in st leaves behind.  When
\* it threw, the unwinding drops the MutexGuard and Cancelled::catch returns
\* Err.
InferReturn(t, file, expr, st) ==
    /\ type_of_expr' = st.type_of_expr
    /\ param_tys' = st.param_tys
    /\ diagnostics' = st.diagnostics
    /\ IF Ok(st)
       THEN /\ watch' = IF watch = NoWatch
                        THEN [key |-> <<file, expr>>, ty |-> st.ret]
                        ELSE watch
            /\ UNCHANGED <<pc, cx_lock, unwound>>
       ELSE /\ pc' = [pc EXCEPT ![t] = "idle"]
            /\ cx_lock' = "none"
            /\ unwound' = (unwound \/ st.type_of_expr # type_of_expr
                                   \/ st.param_tys # param_tys
                                   \/ st.diagnostics # diagnostics)
            /\ UNCHANGED watch
    /\ tc_last' = [op |-> "infer_expr", file |-> file, expr |-> expr,
                   flag |-> cancelled,
                   hit |-> <<file, expr>> \in DOMAIN type_of_expr,
                   status |-> st.status,
                   wrote |-> \/ st.type_of_expr # type_of_expr
                             \/ st.param_tys # param_tys
                             \/ st.diagnostics # diagnostics,
                   ret |-> IF Ok(st) THEN st.ret ELSE TyAny,
                   watched |-> (watch.key = <<file, expr>>),
                   landed |-> (st.cancelled /\ ~cancelled),
                   hits_raised |-> st.hits_raised,
                   computed_raised |-> st.computed_raised]

\* InferReturn for the calls whose diagnostics fit the bound
InferDone(t, file, expr, st) ==
    /\ Len(st.diagnostics) <= MaxDiags
    /\ InferReturn(t, file, expr, st)

\* one call tcx.infer_expr(file, expr) inside the closure
Infer(t, file, expr, k) ==
    /\ pc[t] = "in_tcx"
    /\ expr \in ExprIds(file)
    /\ InferDone(t, file, expr, infer_expr(Ctx(k), file, expr))

\* CancelGuard::new: `gcx.shared_state.cancelled.store(true)`
CancelGuardNew(c) ==
    /\ guard[c] = "idle"
    /\ cancelled' = TRUE
    /\ guard' = [guard EXCEPT ![c] = "alive"]
    /\ changed' = [changed EXCEPT ![c] = {}]
    /\ overlap' = [g \in Cancellers |-> overlap[g] \/ guard[g] = "drop_stored"]

\* infer_expr with no CancelGuard created while it runs
InferExpr(t, file, expr) ==
    /\ Infer(t, file, expr, 0 - 1)
    /\ UNCHANGED <<cancelled, contents, guard, changed, overlap>>
    /\ UNCHANGED <<flow_vars, infer_vars, check_vars, exprs_iter>>

\* infer_expr while another thread calls GlobalCtxt::cancel(): the store of
\* CancelGuard::new lands after k entries into infer_expr.  (While the call
\* holds the mutex nothing else of the context or the flag can change: the
\* store(false) of a drop needs the mutex.)
InferExprCancel(t, file, expr, c, k) ==
    /\ ~cancelled
    /\ Infer(t, file, expr, k)
    /\ tc_last'.landed
    /\ CancelGuardNew(c)
    /\ UNCHANGED contents
    /\ UNCHANGED <<flow_vars, infer_vars, check_vars, exprs_iter>>

\* GlobalCtxt::cancel() while no inference call is running
Cancel(c) ==
    /\ CancelGuardNew(c)
    /\ tc_last' = [op |-> "cancel"]
    /\ UNCHANGED <<cx_lock, type_of_expr, param_tys, diagnostics, contents,
                   pc, watch, unwound>>
    /\ UNCHANGED <<flow_vars, infer_vars, check_vars, exprs_iter>>

\* the change of a file's contents, made while the CancelGuard is held; it
\* needs exclusive access to the engine: no query is running
SetContents(c, file, m) ==
    /\ guard[c] = "alive"
    /\ \A t \in Threads : pc[t] = "idle"
    /\ m # contents[file]
    /\ contents' = [contents EXCEPT ![file] = m]
    /\ changed' = [changed EXCEPT ![c] = @ \cup {file}]
    /\ watch' = NoWatch
    /\ tc_last' = [op |-> "set_contents", file |-> file]
    /\ UNCHANGED <<cancelled, cx_lock, type_of_expr, param_tys, diagnostics, pc,
                   guard, overlap, unwound>>
    /\ UNCHANGED <<flow_vars, infer_vars, check_vars, exprs_iter>>

\* CancelGuard::drop, line 575: `self.cx.lock()`
DropLock(c) ==
    /\ guard[c] = "alive"
    /\ lock_ready(cx_lock)
    /\ cx_lock' = c
    /\ guard' = [guard EXCEPT ![c] = "drop_locked"]
    /\ tc_last' = [op |-> "drop_lock"]
    /\ UNCHANGED <<cancelled, type_of_expr, param_tys, diagnostics, contents,
                   pc, changed, overlap, watch, unwound>>
    /\ UNCHANGED <<flow_vars, infer_vars, check_vars, exprs_iter>>

\* CancelGuard::drop, line 576: `cancelled.store(false)`
DropStore(c) ==
    /\ guard[c] = "drop_locked"
    /\ cancelled' = FALSE
    /\ guard' = [guard EXCEPT ![c] = "drop_stored"]
    /\ overlap' = [overlap EXCEPT ![c] = FALSE]
    /\ tc_last' = [op |-> "drop_store"]
    /\ UNCHANGED <<cx_lock, type_of_expr, param_tys, diagnostics, contents,
                   pc, changed, watch, unwound>>
    /\ UNCHANGED <<flow_vars, infer_vars, check_vars, exprs_iter>>

\* a reset that leaves the diagnostics in place
default_ctx_keepdiagnostics ==
    [type_of_expr |-> EmptyMap, param_tys |-> EmptyMap,
     diagnostics |-> diagnostics]

\* InferenceCtxt::default()
default_ctx ==
    [type_of_expr |-> EmptyMap, param_tys |-> EmptyMap, diagnostics |-> <<>>]

\* CancelGuard::drop, line 577 and the end of the scope:
\* `*cx = Default::default()`, then the MutexGuard is dropped
DropReset(c) ==
    /\ guard[c] = "drop_stored"
    /\ type_of_expr' = default_ctx.type_of_expr
    /\ param_tys' = default_ctx.param_tys
    /\ diagnostics' = default_ctx.diagnostics
    /\ cx_lock' = "none"
    /\ guard' = [guard EXCEPT ![c] = "idle"]
    /\ watch' = NoWatch
    /\ unwound' = FALSE
    /\ changed' = [changed EXCEPT ![c] = {}]
    /\ overlap' = [overlap EXCEPT ![c] = FALSE]
    /\ tc_last' = [op |-> "drop", changed |-> changed[c],
                   before |-> type_of_expr, unwound |-> unwound,
                   overlap |-> overlap[c]]
    /\ UNCHANGED <<cancelled, contents, pc>>
    /\ UNCHANGED <<flow_vars, infer_vars, check_vars, exprs_iter>>

InitTc ==
    /\ FlowNew(0)
    /\ TcNew
    /\ InferNew
    /\ CheckNew

NextTc ==
    \/ \E t \in Threads : WithTcxLock(t)
    \/ \E t \in Threads : WithTcxExit(t)
    \/ \E t \in Threads, file \in Files :
          \E expr \in ExprIds(file) : InferExpr(t, file, expr)
    \/ \E t \in Threads, file \in Files, c \in Cancellers, k \in 1..MaxEntries :
          \E expr \in ExprIds(file) : InferExprCancel(t, file, expr, c, k)
    \/ \E c \in Cancellers : Cancel(c)
    \/ \E c \in Cancellers, file \in Files :
          \E m \in ModulesOf(file) : SetContents(c, file, m)
    \/ \E c \in Cancellers : DropLock(c)
    \/ \E c \in Cancellers : DropStore(c)
    \/ \E c \in Cancellers : DropReset(c)

SpecTc == InitTc /\ [][NextTc]_vars

----------------------------------------------------------------------------
(***************************************************************************)
(* infer_all_exprs under with_tcx, one infer_expr call at a time, next to  *)
(* CancelGuards that are created and dropped.                              *)
(***************************************************************************)
\* an iterator that yields the same expression again
next_of_iter_stuck(expr) == expr

\* `exprs.iter()`, line 592: the expression after expr
next_of_iter(expr) == expr + 1

\* with_tcx(|tcx| tcx.infer_all_exprs(file)) up to the loop: `self.cx.lock()`
InferAllLock(t, file) ==
    /\ pc[t] = "idle"
    /\ lock_ready(cx_lock)
    /\ cx_lock' = t
    /\ pc' = [pc EXCEPT ![t] = "in_tcx"]
    /\ exprs_iter' = [exprs_iter EXCEPT ![t] = [file |-> file, expr |-> 0]]
    /\ tc_last' = [op |-> "lock"]
    /\ UNCHANGED <<cancelled, type_of_expr, param_tys, diagnostics, contents,
                   guard, changed, overlap, watch, unwound>>
    /\ UNCHANGED <<flow_vars, infer_vars, check_vars>>

\* the loop of infer_all_exprs has an expression left
InLoop(t) ==
    /\ pc[t] = "in_tcx"
    /\ exprs_iter[t] # NoIter
    /\ exprs_iter[t].expr \in ExprIds(exprs_iter[t].file)

\* the iterator after the call that ended in st: dropped when the call threw
IterAfter(t, st) ==
    [exprs_iter EXCEPT ![t] = IF Ok(st)
                              THEN [@ EXCEPT !.expr = next_of_iter(@)]
                              ELSE NoIter]

\* one turn of the loop, line 593: `self.infer_expr(file, expr)`
InferAllStep(t) ==
    /\ InLoop(t)
    /\ \E st \in {infer_expr(Ctx(0 - 1), exprs_iter[t].file, exprs_iter[t].expr)} :
          /\ InferReturn(t, exprs_iter[t].file, exprs_iter[t].expr, st)
          /\ exprs_iter' = IterAfter(t, st)
    /\ UNCHANGED <<cancelled, contents, guard, changed, overlap>>
    /\ UNCHANGED <<flow_vars, infer_vars, check_vars>>

\* one turn of the loop while another thread calls GlobalCtxt::cancel(): the
\* store of CancelGuard::new lands after k entries into infer_expr
InferAllStepCancel(t, c, k) ==
    /\ InLoop(t)
    /\ ~cancelled
    /\ \E st \in {infer_expr(Ctx(k), exprs_iter[t].file, exprs_iter[t].expr)} :
          /\ InferReturn(t, exprs_iter[t].file, exprs_iter[t].expr, st)
          /\ exprs_iter' = IterAfter(t, st)
    /\ tc_last'.landed
    /\ CancelGuardNew(c)
    /\ UNCHANGED contents
    /\ UNCHANGED <<flow_vars, infer_vars, check_vars>>

\* the loop is over: infer_all_exprs and the closure return, the MutexGuard is
\* dropped
InferAllExit(t) ==
    /\ pc[t] = "in_tcx"
    /\ exprs_iter[t] # NoIter
    /\ exprs_iter[t].expr \notin ExprIds(exprs_iter[t].file)
    /\ cx_lock' = "none"
    /\ pc' = [pc EXCEPT ![t] = "idle"]
    /\ exprs_iter' = [exprs_iter EXCEPT ![t] = NoIter]
    /\ tc_last' = [op |-> "unlock"]
    /\ UNCHANGED <<cancelled, type_of_expr, param_tys, diagnostics, contents,
                   guard, changed, overlap, watch, unwound>>
    /\ UNCHANGED <<flow_vars, infer_vars, check_vars>>

NextTcLive ==
    \/ \E t \in Threads, file \in Files : InferAllLock(t, file)
    \/ \E t \in Threads : InferAllStep(t)
    \/ \E t \in Threads, c \in Cancellers, k \in 1..MaxEntries :
          InferAllStepCancel(t, c, k)
    \/ \E t \in Threads : InferAllExit(t)
    \/ \E c \in Cancellers : Cancel(c)
    \/ \E c \in Cancellers : DropLock(c)
    \/ \E c \in Cancellers : DropStore(c)
    \/ \E c \in Cancellers : DropReset(c)

\* A thread inside infer_all_exprs keeps running; a CancelGuard is a temporary
\* that its owner drops; the mutex is eventually fair (a lock() that finds the
\* mutex free again and again is served); a drop that holds the mutex runs on.
FairTcLive ==
    /\ \A t \in Threads :
          WF_vars(InferAllStep(t) \/ InferAllExit(t))
    /\ \A c \in Cancellers :
          SF_vars(DropLock(c)) /\ WF_vars(DropStore(c) \/ DropReset(c))

SpecTcLive == InitTc /\ [][NextTcLive]_vars /\ FairTcLive

----------------------------------------------------------------------------
(***************************************************************************)
(* infer_expr on the expressions of one module, in any order, with no      *)
(* cancellation (specification SpecExpr).                                  *)
(***************************************************************************)
\* the modules file A is given
ExprModules == {5, 6, 7}

InitExpr ==
    /\ FlowNew(0)
    /\ cancelled = FALSE
    /\ cx_lock = "none"
    /\ type_of_expr = EmptyMap
    /\ param_tys = EmptyMap
    /\ diagnostics = <<>>
    /\ \E m \in ExprModules : contents = [f \in Files |-> IF f = "A" THEN m ELSE 3]
    /\ pc = [t \in Threads |-> "idle"]
    /\ guard = [c \in Cancellers |-> "idle"]
    /\ changed = [c \in Cancellers |-> {}]
    /\ overlap = [c \in Cancellers |-> FALSE]
    /\ watch = NoWatch
    /\ unwound = FALSE
    /\ tc_last = NoStep
    /\ exprs_iter = [t \in Threads |-> NoIter]
    /\ InferNew
    /\ CheckNew

NextExpr ==
    \/ \E t \in Threads : WithTcxLock(t)
    \/ \E t \in Threads, file \in Files :
          \E expr \in ExprIds(file) : InferExpr(t, file, expr)
    \/ \E t \in Threads : WithTcxExit(t)

SpecExpr == InitExpr /\ [][NextExpr]_vars

----------------------------------------------------------------------------
(***************************************************************************)
(* Inference functions that depend on their arguments only (specification  *)
(* SpecInfer).  Each action applies one of them to arguments drawn from    *)
(* small sets and records the application in infer_last.                   *)
(***************************************************************************)
\* the types the functions are applied to
Tys == {TyAny, TyUnknown, TyUnbound, TyInt, TyFloat, TyString, TyBool,
        TyList(TyInt), TyList(TyAny), TyTuple(<<TyInt>>)}

\* assign_tys
assign_tys(source, target) ==
    IF is_any(source) \/ is_unknown(source) \/ is_any(target) \/ is_unknown(target)
    THEN TRUE
    ELSE source = target

RECURSIVE substitute(_, _)

\* Ty::substitute
substitute(ty, args) ==
    CASE ty.k = "List" -> TyList(substitute(ty.ty, args))
      [] ty.k = "Tuple" ->
           TyTuple([i \in 1..Len(ty.tys) |-> substitute(ty.tys[i], args)])
      [] ty.k = "Dict" ->
           TyDict(substitute(ty.key, args), substitute(ty.value, args))
      [] ty.k = "BoundVar" -> args[ty.index + 1]
      [] OTHER -> ty

\* assign_tys applied to two types
AssignTys(source, target) ==
    /\ infer_pc = "idle"
    /\ infer_last' = [op |-> "assign_tys", source |-> source, target |-> target,
                      ret |-> assign_tys(source, target)]
    /\ UNCHANGED <<flow_vars, check_vars, tc_vars, func_params, slots, next_arg,
                   infer_pc>>

(***************************************************************************)
(* The call of a built-in function, Expr::Call with a callee of type       *)
(* BuiltinFunction(func, subst), lines 840-1058.  The call is expression 0 *)
(* of file A and its i-th argument is expression i.                        *)
(***************************************************************************)
\* BuiltinFunctionParam::is_optional, as each parameter answers it
is_optional(param) == param.optional

\* the BuiltinFunctionParams the built-in functions are made of
Params ==
    {[p |-> "Positional", ty |-> TyInt, optional |-> FALSE],
     [p |-> "Positional", ty |-> TyBoundVar(0), optional |-> TRUE],
     [p |-> "Keyword", name |-> "a", ty |-> TyString, optional |-> FALSE],
     [p |-> "Keyword", name |-> "b", ty |-> TyInt, optional |-> TRUE],
     [p |-> "VarArgList", ty |-> TyInt],
     [p |-> "VarArgDict"]}

\* the parameter lists of the built-in functions
ParamLists == UNION {[1..n -> Params] : n \in 0..MaxParams}

\* subst.args of the callee's type: the type bound to BoundVar(0)
subst_args == <<TyString>>

\* the names and the types of the arguments
ArgNames == {"a", "c"}
ArgTys == {TyInt, TyString}

\* SlotProvider
Missing == [v |-> "Missing"]
Single(expr, ty) == [v |-> "Single", expr |-> expr, ty |-> ty]
VarArgListProvider(expr, ty) == [v |-> "VarArgList", expr |-> expr, ty |-> ty]
VarArgDictProvider(expr, ty) == [v |-> "VarArgDict", expr |-> expr, ty |-> ty]

\* Slot
PositionalSlot(provider) == [s |-> "Positional", provider |-> provider]
KeywordSlot(name, provider) ==
    [s |-> "Keyword", name |-> name, provider |-> provider]
VarArgListSlot(providers) == [s |-> "VarArgList", providers |-> providers]
VarArgDictSlot(providers) == [s |-> "VarArgDict", providers |-> providers]

RECURSIVE build_slots_skip(_, _, _)
RECURSIVE build_slots(_, _, _)

\* slot building that skips a Positional parameter after `*args` and goes on
build_slots_skip(params, saw_vararg, acc) ==
    IF params = <<>> THEN acc
    ELSE CASE Head(params).p = "Positional" ->
                IF saw_vararg
                THEN build_slots_skip(Tail(params), saw_vararg, acc)
                ELSE build_slots_skip(Tail(params), saw_vararg,
                                      Append(acc, PositionalSlot(Missing)))
           [] Head(params).p = "Keyword" ->
                build_slots_skip(Tail(params), saw_vararg,
                                 Append(acc, KeywordSlot(Head(params).name, Missing)))
           [] Head(params).p = "VarArgList" ->
                build_slots_skip(Tail(params), TRUE,
                                 Append(acc, VarArgListSlot(<<>>)))
           [] OTHER -> Append(acc, VarArgDictSlot(<<>>))

\* `for param in params`, lines 873-908: the parameters still to visit,
\* saw_vararg, and the slots pushed so far (saw_kwargs ends the loop)
build_slots(params, saw_vararg, acc) ==
    IF params = <<>> THEN acc
    ELSE CASE Head(params).p = "Positional" ->
                IF saw_vararg
                THEN acc
                ELSE build_slots(Tail(params), saw_vararg,
                                 Append(acc, PositionalSlot(Missing)))
           [] Head(params).p = "Keyword" ->
                build_slots(Tail(params), saw_vararg,
                            Append(acc, KeywordSlot(Head(params).name, Missing)))
           [] Head(params).p = "VarArgList" ->
                build_slots(Tail(params), TRUE, Append(acc, VarArgListSlot(<<>>)))
           [] OTHER -> Append(acc, VarArgDictSlot(<<>>))

RECURSIVE simple_arg_varargfirst(_, _, _, _, _)
RECURSIVE simple_arg(_, _, _, _, _)
RECURSIVE keyword_arg(_, _, _, _, _, _)

\* a positional argument that is given to `*args` although a Positional slot
\* is empty
simple_arg_varargfirst(st, file, expr, arg_ty, i) ==
    IF \E j \in DOMAIN st.slots : st.slots[j].s = "VarArgList"
    THEN LET j == CHOOSE j \in DOMAIN st.slots : st.slots[j].s = "VarArgList" IN
         [st EXCEPT !.slots[j].providers = Append(@, Single(expr, arg_ty))]
    ELSE add_diagnostic(st, file, expr, "Unexpected positional argument")

\* Argument::Simple, lines 914-936: `for slot in slots.iter_mut()` from the
\* i-th slot on, then the diagnostic
simple_arg(st, file, expr, arg_ty, i) ==
    IF i > Len(st.slots)
    THEN add_diagnostic(st, file, expr, "Unexpected positional argument")
    ELSE CASE st.slots[i].s = "Positional" /\ st.slots[i].provider = Missing ->
                [st EXCEPT !.slots[i].provider = Single(expr, arg_ty)]
           [] st.slots[i].s = "VarArgList" ->
                [st EXCEPT !.slots[i].providers = Append(@, Single(expr, arg_ty))]
           [] OTHER -> simple_arg(st, file, expr, arg_ty, i + 1)

\* Argument::Keyword, lines 937-970
keyword_arg(st, file, expr, arg_name, arg_ty, i) ==
    IF i > Len(st.slots)
    THEN add_diagnostic(st, file, expr,
                        "Unexpected keyword argument \"" \o arg_name \o "\"")
    ELSE CASE /\ st.slots[i].s = "Keyword"
              /\ st.slots[i].provider.v \in {"Missing", "VarArgDict"}
              /\ arg_name = st.slots[i].name ->
                [st EXCEPT !.slots[i].provider = Single(expr, arg_ty)]
           [] st.slots[i].s = "VarArgList" ->
                [st EXCEPT !.slots[i].providers = Append(@, Single(expr, arg_ty))]
           [] OTHER -> keyword_arg(st, file, expr, arg_name, arg_ty, i + 1)

\* Argument::UnpackedList, lines 971-990
unpacked_list_arg(st, expr, arg_ty) ==
    [st EXCEPT !.slots =
        [i \in DOMAIN @ |->
            CASE @[i].s = "Positional" /\ @[i].provider = Missing ->
                   PositionalSlot(VarArgListProvider(expr, arg_ty))
              [] @[i].s = "VarArgList" ->
                   VarArgListSlot(Append(@[i].providers,
                                         VarArgListProvider(expr, arg_ty)))
              [] OTHER -> @[i]]]

\* Argument::UnpackedDict, lines 991-1006
unpacked_dict_arg(st, expr, arg_ty) ==
    [st EXCEPT !.slots =
        [i \in DOMAIN @ |->
            CASE @[i].s = "Keyword" ->
                   KeywordSlot(@[i].name, VarArgDictProvider(expr, arg_ty))
              [] @[i].s = "VarArgDict" ->
                   VarArgDictSlot(Append(@[i].providers,
                                         VarArgDictProvider(expr, arg_ty)))
              [] OTHER -> @[i]]]

\* `let param_ty = match param {...}; param_ty.substitute(&subst.args)`,
\* lines 1013-1022
substituted_param_ty(param) ==
    substitute(IF param.p = "VarArgDict" THEN TyDict(TyAny, TyAny) ELSE param.ty,
               subst_args)

\* validation that never reports a missing argument
validate_provider_nomissing(st, file, expr, param, provider) ==
    IF provider.v = "Single"
          /\ ~assign_tys(provider.ty, substituted_param_ty(param))
    THEN add_diagnostic(st, file, provider.expr, "cannot be assigned")
    ELSE st

\* the closure validate_provider, lines 1024-1043
validate_provider(st, file, expr, param, provider) ==
    CASE provider.v = "Missing" ->
           IF ~is_optional(param)
           THEN add_diagnostic(
                    st, file, expr,
                    "Missing expected argument of type \""
                        \o display(substituted_param_ty(param)) \o "\"")
           ELSE st
      [] provider.v = "Single" ->
           IF ~assign_tys(provider.ty, substituted_param_ty(param))
           THEN add_diagnostic(
                    st, file, provider.expr,
                    "Argument of type \"" \o display(provider.ty)
                        \o "\" cannot be assigned to paramter of type \""
                        \o display(substituted_param_ty(param)) \o "\"")
           ELSE st
      [] OTHER -> st

RECURSIVE validate_providers(_, _, _, _, _)
RECURSIVE validate_slots(_, _, _, _, _)

\* `providers.into_iter().for_each(validate_provider)`, line 1050
validate_providers(st, file, expr, param, providers) ==
    IF providers = <<>> THEN st
    ELSE validate_providers(
             validate_provider(st, file, expr, param, Head(providers)),
             file, expr, param, Tail(providers))

\* `for (param, slot) in params.iter().zip(slots)`, lines 1012-1053, from
\* the i-th pair on
validate_slots(st, file, expr, params, i) ==
    IF i > Len(params) \/ i > Len(st.slots) THEN st
    ELSE validate_slots(
             IF st.slots[i].s \in {"Positional", "Keyword"}
             THEN validate_provider(st, file, expr, params[i],
                                    st.slots[i].provider)
             ELSE validate_providers(st, file, expr, params[i],
                                     st.slots[i].providers),
             file, expr, params, i + 1)

\* the slots and the diagnostics as the binding of an argument finds them
CallCtx == [slots |-> slots, diagnostics |-> diagnostics, ret |-> TyAny]

\* the variables of the inference context that the inference of a call
\* leaves alone
call_unchanged ==
    <<flow_vars, check_vars, cancelled, cx_lock, type_of_expr, param_tys, contents, pc,
      guard, changed, overlap, watch, unwound, tc_last,
      exprs_iter>>

\* a call of a built-in function with parameters params: the slots are built
CallBuiltin(params) ==
    /\ infer_pc = "idle"
    /\ func_params' = params
    /\ slots' = build_slots(params, FALSE, <<>>)
    /\ next_arg' = 0
    /\ infer_pc' = "args"
    /\ infer_last' = [op |-> "slots"]
    /\ UNCHANGED <<call_unchanged, diagnostics>>

\* one argument bound: st is the result, op and arg tell which argument
ArgBound(st, op, arg) ==
    /\ slots' = st.slots
    /\ diagnostics' = st.diagnostics
    /\ next_arg' = next_arg + 1
    /\ infer_last' = [op |-> op, arg |-> arg, expr |-> next_arg + 1,
                      slots |-> slots, diagnostics |-> diagnostics]
    /\ UNCHANGED <<call_unchanged, func_params, infer_pc>>

\* the next argument is `e`
ArgSimple(arg_ty) ==
    /\ infer_pc = "args"
    /\ next_arg < MaxArgs
    /\ ArgBound(simple_arg(CallCtx, "A", next_arg + 1, arg_ty, 1), "simple",
                [ty |-> arg_ty])

\* the next argument is `name = e`
ArgKeyword(arg_name, arg_ty) ==
    /\ infer_pc = "args"
    /\ next_arg < MaxArgs
    /\ ArgBound(keyword_arg(CallCtx, "A", next_arg + 1, arg_name, arg_ty, 1),
                "keyword", [name |-> arg_name, ty |-> arg_ty])

\* the next argument is `*e`
ArgUnpackedList ==
    /\ infer_pc = "args"
    /\ next_arg < MaxArgs
    /\ ArgBound(unpacked_list_arg(CallCtx, next_arg + 1, TyList(TyAny)),
                "unpacked_list", [ty |-> TyList(TyAny)])

\* the next argument is `**e`
ArgUnpackedDict ==
    /\ infer_pc = "args"
    /\ next_arg < MaxArgs
    /\ ArgBound(unpacked_dict_arg(CallCtx, next_arg + 1, TyDict(TyAny, TyAny)),
                "unpacked_dict", [ty |-> TyDict(TyAny, TyAny)])

\* the arguments are all bound: the slots are validated
Validated(st) ==
    /\ diagnostics' = st.diagnostics
    /\ infer_pc' = "done"
    /\ infer_last' = [op |-> "validate", diagnostics |-> diagnostics]
    /\ UNCHANGED <<call_unchanged, func_params, slots, next_arg>>

ValidateArgs ==
    /\ infer_pc = "args"
    /\ Validated(validate_slots(CallCtx, "A", 0, func_params, 1))

(***************************************************************************)
(* Tuple destructuring and binary expressions.                             *)
(***************************************************************************)
\* the element types of the tuple types that are destructured
ElemTyLists == UNION {[1..m -> {TyInt, TyString}] : m \in 0..MaxElems}

\* the first n targets of module 4 are assigned from a value of the tuple
\* type with element types tys: assign_exprs_source_ty(file, root, exprs,
\* Tuple(tys))
Destructured(st, n, tys) ==
    /\ type_of_expr' = st.type_of_expr
    /\ diagnostics' = st.diagnostics
    /\ infer_pc' = "done"
    /\ infer_last' = [op |-> "destructure", n |-> n, tys |-> tys]
    /\ UNCHANGED <<flow_vars, check_vars, cancelled, cx_lock, param_tys, contents, pc,
                   guard, changed, overlap, watch, unwound, tc_last, exprs_iter,
                   func_params, slots, next_arg>>

Destructure(n, tys) ==
    /\ infer_pc = "idle"
    /\ Destructured(assign_exprs_source_ty(Ctx(0 - 1), "A", MaxElems,
                                           [i \in 1..n |-> i - 1], TyTuple(tys)),
                    n, tys)

\* BinaryOp, with the text of the operator
BinaryOps ==
    {[b |-> "Arith", op |-> "Add", text |-> "+"],
     [b |-> "Arith", op |-> "Sub", text |-> "-"],
     [b |-> "Bitwise", op |-> "And", text |-> "&"],
     [b |-> "Cmp", op |-> "Eq", text |-> "=="],
     [b |-> "Cmp", op |-> "Lt", text |-> "<"],
     [b |-> "Logic", op |-> "And", text |-> "and"],
     [b |-> "MembershipOp", op |-> "In", text |-> "in"]}

\* the closure `unknown` of infer_binary_expr, lines 1132-1143
unknown(st, file, parent, lhs, rhs, op) ==
    add_diagnostic(st, file, parent,
                   "Operator \"" \o op.text \o "\" not supported for types \""
                       \o display(lhs) \o "\" and \"" \o display(rhs) \o "\"")

\* the `match op` of infer_binary_expr, lines 1149-1164
binary_op_ty(st, file, parent, lhs, rhs, op) ==
    CASE op.b = "Arith" ->
           CASE lhs = TyString /\ rhs = TyString /\ op.op = "Add" ->
                  Return(st, TyString)
             [] lhs = TyInt /\ rhs = TyInt -> Return(st, TyInt)
             [] <<lhs, rhs>> \in {<<TyFloat, TyInt>>, <<TyInt, TyFloat>>,
                                  <<TyFloat, TyFloat>>} -> Return(st, TyFloat)
             [] OTHER -> unknown(st, file, parent, lhs, rhs, op)
      [] op.b = "Bitwise" ->
           IF lhs = TyInt /\ rhs = TyInt THEN Return(st, TyInt)
           ELSE unknown(st, file, parent, lhs, rhs, op)
      [] OTHER -> Return(st, TyBool)

\* infer_binary_expr that looks at the operator before it looks for Any
infer_binary_expr_opfirst(st, file, parent, lhs, rhs, op) ==
    IF op.b \notin {"Arith", "Bitwise"} THEN Return(st, TyBool)
    ELSE IF lhs = TyAny \/ rhs = TyAny THEN Return(st, TyAny)
    ELSE binary_op_ty(st, file, parent, lhs, rhs, op)

\* TyCtxt::infer_binary_expr once the operands are inferred, lines 1130-1164:
\* lhs and rhs are the types of the operands
infer_binary_expr(st, file, parent, lhs, rhs, op) ==
    IF lhs = TyAny \/ rhs = TyAny THEN Return(st, TyAny)
    ELSE binary_op_ty(st, file, parent, lhs, rhs, op)

\* the binary expression 0 of file A, `l op r`, with operands of types lhs
\* and rhs
BinaryInferred(st, op, lhs, rhs) ==
    /\ diagnostics' = st.diagnostics
    /\ infer_pc' = "done"
    /\ infer_last' = [op |-> "binary", bop |-> op, lhs |-> lhs, rhs |-> rhs,
                      ret |-> st.ret]
    /\ UNCHANGED <<call_unchanged, func_params, slots, next_arg>>

BinaryExpr(op, lhs, rhs) ==
    /\ infer_pc = "idle"
    /\ BinaryInferred(infer_binary_expr(Ctx(0 - 1), "A", 0, lhs, rhs, op),
                      op, lhs, rhs)

\* an empty inference context; every file holds module 4
InitInfer ==
    /\ FlowNew(0)
    /\ cancelled = FALSE
    /\ cx_lock = "none"
    /\ type_of_expr = EmptyMap
    /\ param_tys = EmptyMap
    /\ diagnostics = <<>>
    /\ contents = [f \in Files |-> 4]
    /\ pc = [t \in Threads |-> "idle"]
    /\ guard = [c \in Cancellers |-> "idle"]
    /\ changed = [c \in Cancellers |-> {}]
    /\ overlap = [c \in Cancellers |-> FALSE]
    /\ watch = NoWatch
    /\ unwound = FALSE
    /\ tc_last = NoStep
    /\ exprs_iter = [t \in Threads |-> NoIter]
    /\ InferNew
    /\ CheckNew

NextInfer ==
    \/ \E source \in Tys, target \in Tys : AssignTys(source, target)
    \/ \E params \in ParamLists : CallBuiltin(params)
    \/ \E arg_ty \in ArgTys : ArgSimple(arg_ty)
    \/ \E arg_name \in ArgNames, arg_ty \in ArgTys : ArgKeyword(arg_name, arg_ty)
    \/ ArgUnpackedList
    \/ ArgUnpackedDict
    \/ ValidateArgs
    \/ \E n \in 0..MaxElems, tys \in ElemTyLists : Destructure(n, tys)
    \/ \E op \in BinaryOps, lhs \in Tys, rhs \in Tys : BinaryExpr(op, lhs, rhs)

SpecInfer == InitInfer /\ [][NextInfer]_vars

----------------------------------------------------------------------------
(***************************************************************************)
(* run_check (check.rs), specification SpecCheck.  A path is the stem and  *)
(* the extension of its file name ("" when it has none), and whether the   *)
(* file can be resolved and read.                                          *)
(***************************************************************************)
Paths ==
    {[stem |-> "a", ext |-> "bzl", exists |-> TRUE],
     [stem |-> "BUILD", ext |-> "bazel", exists |-> TRUE],
     [stem |-> "a", ext |-> "sky", exists |-> TRUE],
     [stem |-> "a", ext |-> "star", exists |-> TRUE],
     [stem |-> "a", ext |-> "txt", exists |-> TRUE],
     [stem |-> "WORKSPACE", ext |-> "", exists |-> TRUE],
     [stem |-> "BUILD", ext |-> "", exists |-> TRUE],
     [stem |-> "WORKSPACE | BUILD", ext |-> "", exists |-> TRUE],
     [stem |-> "Makefile", ext |-> "", exists |-> TRUE],
     [stem |-> "gone", ext |-> "bzl", exists |-> FALSE]}

\* Path::file_name
file_name(path) ==
    IF path.ext = "" THEN path.stem ELSE path.stem \o "." \o path.ext

\* `let dialect = match resolved.extension() {...}`, lines 62-73; "none" is
\* the arm that returns Err
dialect_of(path) ==
    CASE path.ext \in {"bzl", "bazel"} -> "Bazel"
      [] path.ext \in {"sky", "star"} -> "Standard"
      [] path.ext = "" /\ file_name(path) = "WORKSPACE | BUILD" -> "Bazel"
      [] OTHER -> "none"

\* Severity
Severities == {"Warning", "Error"}

\* the diagnostics the analysis may give for one file
DiagnosticLists == UNION {[1..n -> Severities] : n \in 0..MaxDiags}

\* the `match diagnostic.severity` of the rendering, lines 98-104
severity_text(severity) == IF severity = "Warning" THEN "warn" ELSE "error"

\* a has_error that a warning raises too
has_error_after_anyseverity(flag, severities) == flag \/ severities # <<>>

\* has_error after the diagnostics of one file are rendered, lines 100-102
has_error_after(flag, severities) ==
    flag \/ \E i \in DOMAIN severities : severities[i] = "Error"

\* one iteration of `for path in &paths`, lines 54-79
CheckPath(path) ==
    /\ check_pc = "paths"
    /\ paths_seen < MaxPaths
    /\ paths_seen' = paths_seen + 1
    /\ check_last' = [op |-> "path", path |-> path, interned |-> interned,
                      file_ids |-> file_ids]
    /\ IF ~path.exists
       THEN check_pc' = "err" /\ UNCHANGED <<interned, file_ids>>
       ELSE IF file_name(path) \in interned
       THEN UNCHANGED <<check_pc, interned, file_ids>>
       ELSE IF dialect_of(path) = "none"
       THEN check_pc' = "err" /\ UNCHANGED <<interned, file_ids>>
       ELSE /\ interned' = interned \cup {file_name(path)}
            /\ file_ids' = Append(file_ids, [path |-> file_name(path),
                                             dialect |-> dialect_of(path)])
            /\ UNCHANGED check_pc
    /\ UNCHANGED <<flow_vars, tc_vars, infer_vars, next_file,
                   rendered_diagnostics, has_error, stdout>>

\* the paths are exhausted: apply_change and snapshot, lines 81-85
ApplyChange ==
    /\ check_pc = "paths"
    /\ check_pc' = "render"
    /\ check_last' = [op |-> "apply_change"]
    /\ UNCHANGED <<flow_vars, tc_vars, infer_vars, paths_seen, interned,
                   file_ids, next_file, rendered_diagnostics, has_error, stdout>>

\* one iteration of `for file_id in file_ids`, lines 87-108: the file has
\* diagnostics of these severities
RenderFile(severities) ==
    /\ check_pc = "render"
    /\ next_file < Len(file_ids)
    /\ next_file' = next_file + 1
    /\ rendered_diagnostics' =
          rendered_diagnostics \o
              [i \in DOMAIN severities |->
                  [path |-> file_ids[next_file + 1].path,
                   severity |-> severity_text(severities[i])]]
    /\ has_error' = has_error_after(has_error, severities)
    /\ check_last' = [op |-> "render", severities |-> severities]
    /\ UNCHANGED <<flow_vars, tc_vars, infer_vars, check_pc, paths_seen,
                   interned, file_ids, stdout>>

\* `print!("{}", rendered_diagnostics)`, line 110
PrintDiagnostics ==
    /\ check_pc = "render"
    /\ next_file = Len(file_ids)
    /\ stdout' = rendered_diagnostics
    /\ check_pc' = "printed"
    /\ check_last' = [op |-> "print"]
    /\ UNCHANGED <<flow_vars, tc_vars, infer_vars, paths_seen, interned,
                   file_ids, next_file, rendered_diagnostics, has_error>>

\* `if has_error { process::exit(1) }  Ok(())`, lines 112-116
ExitOrReturn ==
    /\ check_pc = "printed"
    /\ check_pc' = IF has_error THEN "exit1" ELSE "ok"
    /\ check_last' = [op |-> "exit"]
    /\ UNCHANGED <<flow_vars, tc_vars, infer_vars, paths_seen, interned,
                   file_ids, next_file, rendered_diagnostics, has_error, stdout>>

InitCheck ==
    /\ FlowNew(0)
    /\ TcNew
    /\ InferNew
    /\ CheckNew

NextCheck ==
    \/ \E path \in Paths : CheckPath(path)
    \/ ApplyChange
    \/ \E severities \in DiagnosticLists : RenderFile(severities)
    \/ PrintDiagnostics
    \/ ExitOrReturn

SpecCheck == InitCheck /\ [][NextCheck]_vars

----------------------------------------------------------------------------
(***************************************************************************)
(* Properties of the code-flow graph builder (specification SpecFlow).     *)
(***************************************************************************)
NodeIds == 0..(Len(flow_nodes) - 1)

IsJoin(id) == Node(flow_nodes, id).n \in {"Branch", "Loop"}

\* the antecedents of a Branch or Loop node, as a set
Ants(id) ==
    LET s == Node(flow_nodes, id).antecedents IN {s[i] : i \in 1..Len(s)}

\* C1: in every graph the builder produces (and in every graph it has built
\* so far) the antecedent list of each Branch and each Loop node holds no
\* node twice and never holds the Unreachable node.
C1_AntecedentsDistinctReachable ==
    \A id \in NodeIds :
        IsJoin(id) =>
            LET s == Node(flow_nodes, id).antecedents IN
            /\ \A i, j \in 1..Len(s) : s[i] = s[j] => i = j
            /\ \A i \in 1..Len(s) : s[i] # unreachable_node

\* C1's case: an `if` without else whose then-branch ended where it began has
\* just pushed the same node twice, and the graph is finished later on; here
\* the second push has just been dropped.
C1_Witness ==
    /\ last.op = "if_end"
    /\ last.frame.els = "none"
    /\ last.frame.then_end = last.frame.pre_if_node
    /\ Len(Node(flow_nodes, last.frame.post_if_node).antecedents) = 1

\* C7: once a break or continue has made the current node Unreachable, the
\* statements that remain in that list are not lowered: the step that follows
\* reads no statement, allocates no flow node and records no HIR entry (but
\* the module's own entry when the list is the top-level one).
C7_UnreachableSkipsSiblings ==
    [][ (last.op \in {"break", "continue"} /\ curr_node = unreachable_node)
          => /\ next_stmt' = next_stmt
             /\ flow_nodes' = flow_nodes
             /\ (DOMAIN hir_to_flow_node') \subseteq
                    ((DOMAIN hir_to_flow_node) \cup {ModuleKey})
             /\ Len(stack') < Len(stack) ]_vars

\* C7's case: a statement list has been left with statements not visited,
\* the current node being Unreachable.
C7_Witness ==
    /\ last.op = "stmts_end"
    /\ last.frame.rest > 0
    /\ curr_node = unreachable_node

\* C8: a `break` inside a for body puts the node that was current into the
\* antecedents of the post-for Branch of the innermost enclosing loop, a
\* `continue` into those of its pre-for Loop; the current node is then
\* Unreachable.
C8_BreakContinueTargets ==
    /\ (last.op = "break" /\ last.frame.k = "for") =>
          /\ Node(flow_nodes, last.frame.post_for_node).n = "Branch"
          /\ last.curr \in Ants(last.frame.post_for_node)
          /\ curr_node = unreachable_node
    /\ (last.op = "continue" /\ last.frame.k = "for") =>
          /\ Node(flow_nodes, last.frame.pre_for_node).n = "Loop"
          /\ last.curr \in Ants(last.frame.pre_for_node)
          /\ curr_node = unreachable_node

\* C8's case: a `break` has just been lowered in the body of the outer of two
\* loops, after the inner loop.
C8_Witness ==
    /\ last.op = "break"
    /\ last.frame.k = "for"
    /\ last.frame.prev_break_target = NoNode
    /\ \E id \in NodeIds : id > last.frame.post_for_node
                           /\ Node(flow_nodes, id).n = "Loop"

\* C9: after a `for` is lowered, the pre-for Loop has among its antecedents
\* the node that was current before the body (the last target's Assign) and,
\* when the body's end is reachable, the node current at the body's end; the
\* post-for Branch has the Loop as an antecedent; the current node is the
\* post-for Branch and not Unreachable.
C9_ForWiring ==
    last.op = "for_end" =>
        LET f == last.frame IN
        /\ Node(flow_nodes, f.pre_for_node).n = "Loop"
        /\ Node(flow_nodes, f.post_for_node).n = "Branch"
        /\ Node(flow_nodes, f.entry).n = "Assign"
        /\ f.entry \in Ants(f.pre_for_node)
        /\ (last.curr # unreachable_node => last.curr \in Ants(f.pre_for_node))
        /\ f.pre_for_node \in Ants(f.post_for_node)
        /\ curr_node = f.post_for_node
        /\ curr_node # unreachable_node

\* C9's case: a `for` whose body ended reachable, away from the loop node, has
\* just been lowered.
C9_Witness ==
    /\ last.op = "for_end"
    /\ last.curr # unreachable_node
    /\ last.curr # last.frame.pre_for_node
    /\ Cardinality(Ants(last.frame.pre_for_node)) = 2

\* C10: both branches of an `if` start from the pre-if node; when the `if` is
\* done the antecedents of its post-if Branch are the reachable ends of the
\* then-branch and of the else / elif branch, or, without else / elif, the
\* then-branch's end and the pre-if node; the current node is the Branch.
C10_IfWiring ==
    /\ last.op \in {"if", "if_then_end"} => curr_node = last.frame.pre_if_node
    /\ last.op = "if_end" =>
          LET f == last.frame IN
          /\ Node(flow_nodes, f.post_if_node).n = "Branch"
          /\ curr_node = f.post_if_node
          /\ Ants(f.post_if_node) =
                (IF f.els = "none" THEN {f.then_end, f.pre_if_node}
                 ELSE {f.then_end, last.curr}) \ {unreachable_node}

\* C10's case: an `if` without else whose then-branch ended at a node of its
\* own has just been lowered (two antecedents, one of them the pre-if node).
C10_Witness ==
    /\ last.op = "if_end"
    /\ last.frame.els = "none"
    /\ last.frame.then_end # unreachable_node
    /\ last.frame.then_end # last.frame.pre_if_node
    /\ Cardinality(Ants(last.frame.post_if_node)) = 2

\* the nodes a node has as antecedents: the list of a Branch or Loop, the one
\* antecedent of an Assign
Preds(id) ==
    LET nd == Node(flow_nodes, id) IN
    CASE nd.n \in {"Branch", "Loop"} -> Ants(id)
      [] nd.n = "Assign" -> {nd.antecedent}
      [] OTHER -> {}

\* the body of the def of frame f (its nodes so far) and the rest of the graph
\* have no edge between them
Independent(f) ==
    \A b \in NodeIds : \A o \in NodeIds :
        (b >= f.body_start /\ o < f.body_start /\ o # unreachable_node)
            => (b \notin Preds(o) /\ o \notin Preds(b))

\* C11: the body of a def starts from a Start node allocated for it; when the
\* def is done the current node is the node that was current before the def
\* (also when the body ended Unreachable), and it is the node recorded for the
\* def statement.
C11_DefRestoresCurrNode ==
    /\ last.op = "def" =>
          /\ curr_node = Len(flow_nodes) - 1
          /\ curr_node = last.frame.body_start
          /\ Node(flow_nodes, curr_node) = [n |-> "Start"]
          /\ curr_node # last.curr
    /\ last.op = "def_end" =>
          /\ curr_node = last.frame.saved_curr_node
          /\ curr_node # unreachable_node
          /\ curr_node < last.frame.body_start
          /\ hir_to_flow_node[StmtKey(last.frame.stmt)] = curr_node

\* C11's case: a def whose body ended Unreachable has just been lowered.
C11_Witness ==
    /\ last.op = "def_end"
    /\ last.curr = unreachable_node
    /\ curr_node = last.frame.saved_curr_node

\* C12: function bodies have independent flow graphs: no node of a def body
\* is an antecedent of a node allocated outside it, and no node allocated
\* outside it is an antecedent of a node of the body; for every def being
\* lowered and for the def just lowered.
C12_DefBodiesIndependent ==
    /\ \A i \in 1..Len(stack) : stack[i].k = "def" => Independent(stack[i])
    /\ last.op = "def_end" => Independent(last.frame)

\* C13: the break and continue targets are, in every state, those of the
\* innermost `for` being lowered (none outside every `for`); so when a `for`
\* is done they are the ones in force before it.
C13_ForRestoresTargets ==
    /\ LET f == Innermost(stack, "for") IN
       IF f = NoFrame
       THEN curr_break_target = NoNode /\ curr_continue_target = NoNode
       ELSE curr_break_target = f.post_for_node
            /\ curr_continue_target = f.pre_for_node
    /\ last.op = "for_end" =>
          /\ curr_break_target = last.frame.prev_break_target
          /\ curr_continue_target = last.frame.prev_continue_target
          /\ curr_break_target # last.frame.post_for_node
          /\ curr_continue_target # last.frame.pre_for_node

\* C13's case: an inner loop has just been lowered in the body of an outer
\* loop, and the outer loop's targets are in force again.
C13_Witness ==
    /\ last.op = "for_end"
    /\ last.frame.prev_break_target # NoNode
    /\ curr_break_target = last.frame.prev_break_target
    /\ curr_continue_target = last.frame.prev_continue_target

----------------------------------------------------------------------------
(***************************************************************************)
(* Properties of the inference context (specification SpecTc).             *)
(***************************************************************************)
CtxEmpty ==
    /\ type_of_expr = EmptyMap
    /\ param_tys = EmptyMap
    /\ diagnostics = <<>>

\* the threads and guards that hold the mutex of the context
InCriticalSection ==
    {t \in Threads : pc[t] = "in_tcx"}
        \cup {c \in Cancellers : guard[c] \in {"drop_locked", "drop_stored"}}

\* C2: two calls infer_expr(f, e) with no input change and no cache reset
\* between them return the same type, whatever other inference calls ran in
\* between: a call on the expression whose return is remembered returns the
\* remembered type.
C2_InferExprIdempotent ==
    (tc_last.op = "infer_expr" /\ tc_last.status = "ok" /\ tc_last.watched)
        => tc_last.ret = watch.ty

\* C3 as stated: when the drop of a CancelGuard is over, the context is empty
\* and the flag is lowered.
C3_DropLowersFlag ==
    tc_last.op = "drop" => (CtxEmpty /\ ~cancelled)

\* C3, amended: when the drop of a CancelGuard is over, the context is empty,
\* whatever an inference call had written before it unwound, and the flag is
\* lowered unless another CancelGuard was created after the drop's
\* store(false): then it is raised.
C3_DropResets ==
    tc_last.op = "drop" => (CtxEmpty /\ (cancelled <=> tc_last.overlap))

\* C3's case: a guard has just been dropped after an inference call had
\* unwound leaving types in the cache.
C3_Witness ==
    /\ tc_last.op = "drop"
    /\ tc_last.unwound
    /\ tc_last.before # EmptyMap
    /\ ~cancelled

\* C4 as stated: no entry into infer_expr made while the flag is raised returns
\* a type, cached or fresh.
C4_NoTypeWhileRaised ==
    tc_last.op = "infer_expr" =>
        /\ tc_last.flag => tc_last.status = "cancelled"
        /\ tc_last.hits_raised = 0

\* C4, amended: every entry into infer_expr made while the flag is raised, for
\* an expression whose type is not cached, unwinds; an entry for a cached
\* expression returns the cached type.  So a call begun with the flag raised
\* writes nothing, and returns exactly when its expression is cached.
C4_MissUnwindsWhileRaised ==
    tc_last.op = "infer_expr" =>
        /\ tc_last.computed_raised = 0
        /\ tc_last.flag =>
              /\ ~tc_last.wrote
              /\ (tc_last.status = "ok") <=> tc_last.hit
              /\ tc_last.hit => tc_last.hits_raised = 1
        /\ tc_last.landed => (tc_last.status = "ok" => tc_last.hits_raised > 0)

\* C4's case: a call begun with the flag lowered has unwound, after it had
\* written to the context, at the first entry that followed a concurrent
\* cancel().
C4_Witness ==
    /\ tc_last.op = "infer_expr"
    /\ tc_last.landed
    /\ tc_last.wrote
    /\ tc_last.status = "cancelled"

\* C5: at most one thread is inside a with_tcx closure or inside the reset of
\* CancelGuard::drop at any time, and it is the owner of the mutex.
C5_MutualExclusion ==
    /\ Cardinality(InCriticalSection) <= 1
    /\ \A o \in InCriticalSection : cx_lock = o
    /\ InCriticalSection = {} => cx_lock = "none"

\* C5's case: a drop is resetting a context that holds types while a guard of
\* another owner is alive and every inference thread is outside.
C5_Witness ==
    /\ \E c \in Cancellers : guard[c] = "drop_stored"
    /\ \E c \in Cancellers : guard[c] = "alive"
    /\ type_of_expr # EmptyMap
    /\ \A t \in Threads : pc[t] = "idle"

\* C6: after the contents of file A have changed (the guard held for the change
\* is dropped), the types cached for the unchanged file B are still in the
\* cache.
C6_UnchangedFileKeepsTypes ==
    (tc_last.op = "drop" /\ tc_last.changed = {"A"}) =>
        \A key \in DOMAIN tc_last.before :
            key[1] = "B" =>
                /\ key \in DOMAIN type_of_expr
                /\ type_of_expr[key] = tc_last.before[key]

----------------------------------------------------------------------------
(***************************************************************************)
(* Properties of the inference functions (specification SpecInfer).        *)
(***************************************************************************)
\* Any, Unknown or Unbound
Gradual(ty) == ty \in {TyAny, TyUnknown, TyUnbound}

\* C14: assign_tys(source, target) is true exactly when source or target is
\* Any, Unknown or Unbound, or source and target are the same type.
C14_AssignTys ==
    infer_last.op = "assign_tys" =>
        (infer_last.ret <=> (\/ Gradual(infer_last.source)
                             \/ Gradual(infer_last.target)
                             \/ infer_last.source = infer_last.target))

\* C14's case: assign_tys has been applied to Unbound and Int, and is true.
C14_Witness ==
    /\ infer_last.op = "assign_tys"
    /\ infer_last.source = TyUnbound
    /\ infer_last.target = TyInt
    /\ infer_last.ret

\* the slot a parameter is given when slots are built
EmptySlot(param) ==
    CASE param.p = "Positional" -> PositionalSlot(Missing)
      [] param.p = "Keyword" -> KeywordSlot(param.name, Missing)
      [] param.p = "VarArgList" -> VarArgListSlot(<<>>)
      [] OTHER -> VarArgDictSlot(<<>>)

\* params[i] is a Positional parameter that follows a VarArgList parameter
AfterVarArg(params, i) ==
    /\ params[i].p = "Positional"
    /\ \E j \in 1..(i - 1) : params[j].p = "VarArgList"

\* params[i] follows a VarArgDict parameter
AfterKwargs(params, i) == \E j \in 1..(i - 1) : params[j].p = "VarArgDict"

\* the k-th smallest element of a set of numbers
Nth(S, k) == CHOOSE i \in S : Cardinality({j \in S : j < i}) = k - 1

\* the smallest element of a set of numbers
Min(S) == CHOOSE i \in S : \A j \in S : i <= j

\* the parameters that get a slot if a Positional parameter after `*args`
\* is skipped and the ones after it are kept
KeptIfSkipped(params) ==
    {i \in DOMAIN params : ~AfterVarArg(params, i) /\ ~AfterKwargs(params, i)}

\* C15 as stated: a Positional parameter after the first VarArgList
\* parameter gets no slot while the parameters after it still get their
\* slots, in parameter order; nothing after a VarArgDict parameter gets one.
C15_PositionalAfterVarArgSkipped ==
    infer_last.op = "slots" =>
        slots = [k \in 1..Cardinality(KeptIfSkipped(func_params)) |->
                    EmptySlot(func_params[Nth(KeptIfSkipped(func_params), k)])]

\* the parameters that get a slot: those before the first Positional
\* parameter after `*args`, up to the first VarArgDict parameter
KeptPrefix(params) ==
    {i \in DOMAIN params :
        /\ \A j \in 1..i : ~AfterVarArg(params, j)
        /\ ~AfterKwargs(params, i)}

\* C15, amended: slots are built in parameter order and slot building stops
\* at the first Positional parameter that follows a VarArgList parameter (it
\* and every parameter after it get no slot), and after a VarArgDict
\* parameter; the slots are those of a prefix of the parameters.
C15_SlotsStopAtPositionalAfterVarArg ==
    infer_last.op = "slots" =>
        /\ Len(slots) = Cardinality(KeptPrefix(func_params))
        /\ \A k \in DOMAIN slots : slots[k] = EmptySlot(func_params[k])

\* C15's case: a Keyword parameter follows a Positional parameter that
\* follows `*args`, and neither has a slot.
C15_Witness ==
    /\ infer_last.op = "slots"
    /\ \E i \in DOMAIN func_params : \E j \in DOMAIN func_params :
          /\ AfterVarArg(func_params, i)
          /\ i < j
          /\ func_params[j].p = "Keyword"
          /\ Len(slots) = i - 1

\* C16: a keyword argument fills the Keyword slot of its name that is empty
\* or filled by an unpacked dict, wherever that slot stands; only when there
\* is none it is appended to the VarArgList slot; only when there is no
\* VarArgList slot either `Unexpected keyword argument` is diagnosed.
C16_KeywordFillsMatchingSlot ==
    infer_last.op = "keyword" =>
        LET before == infer_last.slots
            provider == Single(infer_last.expr, infer_last.arg.ty)
            Matching == {i \in DOMAIN before :
                            /\ before[i].s = "Keyword"
                            /\ before[i].name = infer_last.arg.name
                            /\ before[i].provider.v \in {"Missing", "VarArgDict"}}
            VarArgs == {i \in DOMAIN before : before[i].s = "VarArgList"}
        IN  IF Matching # {}
            THEN /\ diagnostics = infer_last.diagnostics
                 /\ \E i \in Matching :
                       slots = [before EXCEPT ![i].provider = provider]
            ELSE IF VarArgs # {}
            THEN /\ diagnostics = infer_last.diagnostics
                 /\ \E i \in VarArgs :
                       slots = [before EXCEPT ![i].providers = Append(@, provider)]
            ELSE /\ slots = before
                 /\ diagnostics =
                       Append(infer_last.diagnostics,
                              [file |-> "A", expr |-> infer_last.expr,
                               message |-> "Unexpected keyword argument \""
                                               \o infer_last.arg.name \o "\""])

\* C17: a positional argument fills the first Positional slot that is still
\* empty; if none is empty it is appended to the VarArgList slot; if there
\* is no VarArgList slot, one `Unexpected positional argument` diagnostic is
\* added on the argument and no slot changes.
C17_PositionalArgument ==
    infer_last.op = "simple" =>
        LET before == infer_last.slots
            provider == Single(infer_last.expr, infer_last.arg.ty)
            Empty == {i \in DOMAIN before :
                         before[i].s = "Positional" /\ before[i].provider = Missing}
            VarArgs == {i \in DOMAIN before : before[i].s = "VarArgList"}
        IN  IF Empty # {}
            THEN /\ diagnostics = infer_last.diagnostics
                 /\ slots = [before EXCEPT ![Min(Empty)].provider = provider]
            ELSE IF VarArgs # {}
            THEN /\ diagnostics = infer_last.diagnostics
                 /\ slots = [before EXCEPT
                                ![Min(VarArgs)].providers = Append(@, provider)]
            ELSE /\ slots = before
                 /\ diagnostics =
                       Append(infer_last.diagnostics,
                              [file |-> "A", expr |-> infer_last.expr,
                               message |-> "Unexpected positional argument"])

\* C17's case: every Positional slot is filled, and the positional argument
\* just bound is in the VarArgList slot.
C17_Witness ==
    /\ infer_last.op = "simple"
    /\ \E i \in DOMAIN slots : slots[i].s = "Positional"
    /\ \E i \in DOMAIN slots :
          /\ slots[i].s = "VarArgList"
          /\ slots[i].providers # <<>>
          /\ slots[i].providers[Len(slots[i].providers)] =
                Single(infer_last.expr, infer_last.arg.ty)

\* the Positional and Keyword slots left Missing whose parameter is required
MissingRequired ==
    {i \in DOMAIN slots :
        /\ slots[i].s \in {"Positional", "Keyword"}
        /\ slots[i].provider = Missing
        /\ ~func_params[i].optional}

\* the argument expressions that fill slot i by themselves
SinglesOf(i) ==
    IF slots[i].s \in {"Positional", "Keyword"}
    THEN IF slots[i].provider.v = "Single" THEN {slots[i].provider} ELSE {}
    ELSE {slots[i].providers[k] : k \in
             {k \in DOMAIN slots[i].providers :
                 slots[i].providers[k].v = "Single"}}

\* the arguments whose type is not assignable to the substituted type of the
\* parameter of their slot
Unassignable ==
    UNION {{provider.expr : provider \in
               {provider \in SinglesOf(i) :
                   LET pty == substituted_param_ty(func_params[i]) IN
                   ~(Gradual(provider.ty) \/ Gradual(pty) \/ provider.ty = pty)}}
           : i \in DOMAIN slots}

\* C18: validation adds one `Missing expected argument` diagnostic (on the
\* call) for each Positional or Keyword slot left Missing whose parameter is
\* not optional, one assignability diagnostic (on the argument) for each
\* single argument whose type is not assignable to the substituted parameter
\* type, and no other diagnostic.
C18_Validation ==
    infer_last.op = "validate" =>
        LET before == infer_last.diagnostics
            added == SubSeq(diagnostics, Len(before) + 1, Len(diagnostics))
        IN  /\ SubSeq(diagnostics, 1, Len(before)) = before
            /\ Len(added) = Cardinality(MissingRequired) + Cardinality(Unassignable)
            /\ Cardinality({k \in DOMAIN added : added[k].expr = 0}) =
                  Cardinality(MissingRequired)
            /\ \A i \in MissingRequired : \E k \in DOMAIN added :
                  added[k] =
                     [file |-> "A", expr |-> 0,
                      message |-> "Missing expected argument of type \""
                          \o display(substituted_param_ty(func_params[i])) \o "\""]
            /\ \A e \in Unassignable : \E k \in DOMAIN added : added[k].expr = e

\* C18's case: validation has reported a missing argument and an argument
\* that is not assignable, and a slot filled by an unpacked argument.
C18_Witness ==
    /\ infer_last.op = "validate"
    /\ MissingRequired # {}
    /\ Unassignable # {}
    /\ \E i \in DOMAIN slots :
          /\ slots[i].s = "Positional"
          /\ slots[i].provider.v = "VarArgList"
    /\ Len(diagnostics) = Len(infer_last.diagnostics) + 2

\* C19: destructuring n targets against a tuple type with m element types
\* gives the i-th target the i-th element type for i < min(n, m), gives
\* every target beyond the m-th Unknown, and adds the diagnostic `Tuple size
\* mismatch, n on left-hand side and m on right-hand side` exactly when n
\* differs from m.
C19_TupleDestructuring ==
    infer_last.op = "destructure" =>
        LET n == infer_last.n
            m == Len(infer_last.tys)
        IN  /\ \A i \in 0..(MaxElems - 1) :
                  IF i < n /\ i < m
                  THEN type_of_expr[<<"A", i>>] = infer_last.tys[i + 1]
                  ELSE IF i < n
                  THEN type_of_expr[<<"A", i>>] = TyUnknown
                  ELSE <<"A", i>> \notin DOMAIN type_of_expr
            /\ diagnostics =
                  IF n # m
                  THEN <<[file |-> "A", expr |-> MaxElems,
                          message |-> "Tuple size mismatch, " \o ToString(n)
                              \o " on left-hand side and " \o ToString(m)
                              \o " on right-hand side"]>>
                  ELSE <<>>

\* C19's case: fewer targets than element types (2 against 3), with the
\* diagnostic.
C19_Witness ==
    /\ infer_last.op = "destructure"
    /\ infer_last.n = 2
    /\ Len(infer_last.tys) = 3
    /\ Len(diagnostics) = 1
    /\ type_of_expr[<<"A", 1>>] = infer_last.tys[2]

\* the comparisons, the logical operators and `in`
BoolOps == {op \in BinaryOps : op.b \in {"Cmp", "Logic", "MembershipOp"}}

\* C20 as stated: a binary expression whose operator is a comparison, a
\* logical operator or `in` has type Bool, whatever the types of its operands.
C20_AlwaysBool ==
    (infer_last.op = "binary" /\ infer_last.bop \in BoolOps) =>
        infer_last.ret = TyBool

\* C20, amended: a binary expression whose operator is a comparison, a
\* logical operator or `in` has type Any when an operand has type Any and
\* type Bool otherwise; no diagnostic is added.
C20_BoolUnlessAny ==
    (infer_last.op = "binary" /\ infer_last.bop \in BoolOps) =>
        /\ infer_last.ret =
              IF infer_last.lhs = TyAny \/ infer_last.rhs = TyAny
              THEN TyAny ELSE TyBool
        /\ diagnostics = <<>>

\* C20's case: a comparison of an operand of type Any with one of type Int
\* has been inferred, with type Any.
C20_Witness ==
    /\ infer_last.op = "binary"
    /\ infer_last.bop.b = "Cmp"
    /\ infer_last.lhs = TyAny
    /\ infer_last.rhs = TyInt
    /\ infer_last.ret = TyAny

----------------------------------------------------------------------------
(***************************************************************************)
(* Properties of run_check (specification SpecCheck).                      *)
(***************************************************************************)
\* C21: run_check exits with code 1 exactly when a diagnostic of a checked
\* file has severity Error, and only after the diagnostics of every file
\* are rendered and printed; otherwise it returns Ok.
C21_ExitCode ==
    check_pc \in {"exit1", "ok"} =>
        /\ next_file = Len(file_ids)
        /\ stdout = rendered_diagnostics
        /\ (check_pc = "exit1") <=>
              (\E i \in DOMAIN stdout : stdout[i].severity = "error")

\* C21's case: run_check has exited with code 1 after it printed a warning
\* of one file and an error of another.
C21_Witness ==
    /\ check_pc = "exit1"
    /\ \E i \in DOMAIN stdout : \E j \in DOMAIN stdout :
          /\ stdout[i].severity = "warn"
          /\ stdout[j].severity = "error"
          /\ stdout[i].path # stdout[j].path

\* C22: a path that can be read and is not yet interned is accepted as
\* Bazel when its extension is bzl or bazel, or when it has no extension and
\* its file name is WORKSPACE or BUILD, as Standard when its extension is
\* sky or star; every other path makes run_check return an error, before
\* any file is analysed.
C22_DialectInference ==
    (/\ check_last.op = "path"
     /\ check_last.path.exists
     /\ file_name(check_last.path) \notin check_last.interned) =>
        LET path == check_last.path
            expected ==
                CASE path.ext \in {"bzl", "bazel"} -> "Bazel"
                  [] path.ext \in {"sky", "star"} -> "Standard"
                  [] path.ext = "" /\ path.stem \in {"WORKSPACE", "BUILD"} ->
                       "Bazel"
                  [] OTHER -> "none"
        IN  IF expected = "none"
            THEN check_pc = "err" /\ file_ids = check_last.file_ids
                 /\ next_file = 0
            ELSE /\ check_pc = "paths"
                 /\ file_ids = Append(check_last.file_ids,
                                      [path |-> file_name(path),
                                       dialect |-> expected])

----------------------------------------------------------------------------
(***************************************************************************)
(* Properties of assignments and of reachability (SpecFlow).               *)
(***************************************************************************)
RECURSIVE target_names(_)
RECURSIVE targets_names(_)
RECURSIVE loaded_names(_)

\* the Name expressions lower_assignment_target allocates an Assign node for
target_names(expr) ==
    CASE expr.e = "Name" -> {expr.id}
      [] expr.e = "Paren" -> target_names(expr.expr)
      [] expr.e \in {"Tuple", "List"} -> targets_names(expr.exprs)
      [] OTHER -> {}

targets_names(exprs) ==
    IF exprs = <<>> THEN {}
    ELSE target_names(Head(exprs)) \cup targets_names(Tail(exprs))

\* the Name expressions of a source that are read (comprehension targets are
\* written)
loaded_names(expr) ==
    CASE expr.e = "Name" -> {expr.id}
      [] expr.e = "ListComp" ->
           loaded_names(expr.expr)
               \cup UNION {IF expr.comp_clauses[i].c = "For"
                           THEN loaded_names(expr.comp_clauses[i].iterable)
                           ELSE loaded_names(expr.comp_clauses[i].test) :
                           i \in DOMAIN expr.comp_clauses}
      [] OTHER -> UNION {loaded_names(child_exprs(expr)[i]) :
                         i \in DOMAIN child_exprs(expr)}

\* the Assign nodes of the targets of the statement just lowered
AssignNodesOf(ids) ==
    {k \in NodeIds : Node(flow_nodes, k).n = "Assign"
                     /\ Node(flow_nodes, k).expr \in ids}

\* C23: after an assignment or the header of a `for` was lowered, every Name
\* read by its right-hand side (its iterable) is recorded in hir_to_flow_node
\* with a node allocated before every Assign node of the statement's own
\* targets, also when the left-hand side has several names.
C23_SourceNamesBeforeAssign ==
    last.op \in {"assign", "for"} =>
        \A r \in loaded_names(last.source) :
        \A k \in AssignNodesOf(targets_names(last.targets)) :
            hir_to_flow_node[ExprKey(r)] < k

\* C24: the graph holds at most one Assign node per assignment target: no
\* two Assign nodes have the same `expr`, comprehension variables inside the
\* source of a destructuring assignment or of a multi-target `for` included.
C24_OneAssignPerTarget ==
    \A j \in NodeIds : \A k \in NodeIds :
        (/\ Node(flow_nodes, j).n = "Assign"
         /\ Node(flow_nodes, k).n = "Assign"
         /\ Node(flow_nodes, j).expr = Node(flow_nodes, k).expr) => j = k

RECURSIVE FromStart(_)

\* the nodes from which antecedent edges lead to a Start node, grown from R
FromStart(R) ==
    LET more == {k \in NodeIds \ R : Preds(k) \cap R # {}}
    IN  IF more = {} THEN R ELSE FromStart(R \cup more)

ReachesStart(k) == k \in FromStart({s \in NodeIds : Node(flow_nodes, s).n = "Start"})

\* C25: from every node recorded for an expression in hir_to_flow_node, and
\* from every Assign node, antecedent edges lead to a Start node: nothing is
\* lowered on top of a Branch node that has no antecedents.
C25_RecordedNodesReachStart ==
    /\ \A key \in DOMAIN hir_to_flow_node :
          key[1] = "expr" => ReachesStart(hir_to_flow_node[key])
    /\ \A k \in NodeIds : Node(flow_nodes, k).n = "Assign" => ReachesStart(k)

----------------------------------------------------------------------------
(***************************************************************************)
(* Properties of overlapping guards and of termination (SpecTc).           *)
(***************************************************************************)
\* a CancelGuard that exists and whose drop has not begun
Held(c) == guard[c] = "alive"

\* C26: while at least one CancelGuard is held the flag is raised, and no
\* inference call that began with a guard held computes a type: the drop of
\* another, overlapping guard changes neither.
C26_FlagRaisedWhileGuardHeld ==
    (\E c \in Cancellers : Held(c)) =>
        /\ cancelled
        /\ (tc_last.op = "infer_expr" /\ ~tc_last.landed) => ~tc_last.wrote

\* C27: an infer_all_exprs call that holds the inference-context lock while
\* the cancel flag is raised gives the lock up, by finishing on cache hits or
\* by unwinding at an entry of infer_expr that misses the cache; every
\* CancelGuard's drop then gets the lock and completes: no thread waits
\* forever.
C27_LockReleasedDropCompletes ==
    /\ \A t \in Threads : (cancelled /\ cx_lock = t) ~> (cx_lock # t)
    /\ \A t \in Threads : (pc[t] = "in_tcx") ~> (pc[t] = "idle")
    /\ \A c \in Cancellers : Held(c) ~> (guard[c] = "idle")

\* C27's case: a guard is held, the flag it raised reached a running
\* infer_all_exprs in the middle of an infer_expr call, and the call unwound
\* before the loop was over.
C27_Witness ==
    /\ tc_last.op = "infer_expr"
    /\ tc_last.status = "cancelled"
    /\ tc_last.landed
    /\ \E c \in Cancellers : Held(c)
    /\ \E t \in Threads : pc[t] = "idle" /\ exprs_iter[t] = NoIter /\ cx_lock = "none"

----------------------------------------------------------------------------
(***************************************************************************)
(* Properties of infer_expr on whole modules (SpecExpr).                   *)
(***************************************************************************)
\* C28: when infer_expr(file, e) has returned a type, the cache holds that
\* type for (file, e), whatever kind of expression e is; a field access on a
\* receiver of type Any, Unknown or Unbound is no exception.
C28_ReturnedTypeIsCached ==
    (tc_last.op = "infer_expr" /\ tc_last.status = "ok") =>
        /\ <<tc_last.file, tc_last.expr>> \in DOMAIN type_of_expr
        /\ type_of_expr[<<tc_last.file, tc_last.expr>>] = tc_last.ret

\* two entries of the diagnostics that tell the same thing of the same place
SameDiagnostic(i, j) ==
    /\ i # j
    /\ diagnostics[i] = diagnostics[j]

\* C29: however many Name expressions that resolve to the targets of an
\* assignment are inferred, a cause in that assignment (a tuple size
\* mismatch, a source that is not iterable) is in the diagnostics once.
C29_CauseDiagnosedOnce ==
    \A i \in DOMAIN diagnostics : \A j \in DOMAIN diagnostics :
        ~SameDiagnostic(i, j)

\* the Name expressions that are targets of an assignment of the file
AssignmentTargets(file) ==
    {module(file).exprs[e + 1].decl.id :
        e \in {x \in ExprIds(file) :
                  /\ module(file).exprs[x + 1].e = "Name"
                  /\ module(file).exprs[x + 1].decl.d = "Variable"}}

\* C30: no target of an assignment has the type Unbound in the cache, also
\* when the right-hand side, or an element of a tuple or list on the
\* right-hand side, is a name that is not defined.
C30_TargetNeverUnbound ==
    \A file \in Files : \A e \in AssignmentTargets(file) :
        <<file, e>> \in DOMAIN type_of_expr =>
            type_of_expr[<<file, e>>] # TyUnbound

=============================================================================
